---------------------------- MODULE Spec2Model ----------------------------
(***************************************************************************)
(* A model of the gide-search transformers (src/src/gide_search and        *)
(* src/src/gide_search_v2): the identifier extractors, the date parsers,   *)
(* the RO-Crate / SSBD / IDR / BIA record builders and the reference-id    *)
(* generator of the RO-Crate writer.                                       *)
(*                                                                         *)
(* Python values are modelled as follows.  A str is a sequence of          *)
(* one-character strings, so that split, startswith, "in" and the regular  *)
(* expressions are computed character by character.  None is the value     *)
(* None (a one-element sequence no str can equal); an absent int is NoInt. *)
(* A dict node of a JSON-LD graph is a record; a key the node does not     *)
(* carry holds None.                                                       *)
(***************************************************************************)
EXTENDS Integers, Sequences, FiniteSets, TLC

VARIABLES
    op,             \* the operation applied last ("init" before any)
    arg,            \* its argument
    ret,            \* what it returned (or the exception it raised)
    generated_ids,  \* gide_search_v2 ROCrateTransformer.generated_ids
    calls,          \* the <<key, force_unique, result>> of each _generate_ref_id call so far
    ssbd,           \* the SSBDTransformer instance and its transform_all loop
    fbbi_label_cache, \* gide_search_v2 ROCrateTransformer.fbbi_label_cache
    index,          \* the documents of the Elasticsearch index the indexers write
    workers,        \* the threads, each with a BIAROCrateTransformer and an OntologyTermFinder of its own
    iri_cache,      \* the functools.cache of OntologyTermFinder._get_iri_for_class_in_ontology
    requests        \* the httpx.get calls of _get_fbbi_label_from_ontology so far: instance and term

callVars == <<op, arg, ret>>
refVars == <<generated_ids, calls>>
vars == <<op, arg, ret, generated_ids, calls, ssbd, fbbi_label_cache, index, workers, iri_cache,
          requests>>

-----------------------------------------------------------------------------
(* Python values *)

None == <<"None">>
NoInt == 0 - 1

Raised(exc) == [kind |-> "raise", exc |-> exc]

-----------------------------------------------------------------------------
(* str operations *)

DigitChars == <<"0", "1", "2", "3", "4", "5", "6", "7", "8", "9">>
UpperChars == <<"A", "B", "C", "D", "E", "F", "G", "H", "I", "J", "K", "L", "M",
                "N", "O", "P", "Q", "R", "S", "T", "U", "V", "W", "X", "Y", "Z">>
LowerChars == <<"a", "b", "c", "d", "e", "f", "g", "h", "i", "j", "k", "l", "m",
                "n", "o", "p", "q", "r", "s", "t", "u", "v", "w", "x", "y", "z">>

IsDigit(c) == \E i \in DOMAIN DigitChars : DigitChars[i] = c

DigitVal(c) == (CHOOSE i \in DOMAIN DigitChars : DigitChars[i] = c) - 1

\* str.lower() of one character
LowerChar(c) ==
    IF \E i \in DOMAIN UpperChars : UpperChars[i] = c
    THEN LowerChars[CHOOSE i \in DOMAIN UpperChars : UpperChars[i] = c]
    ELSE c

\* str.lower()
Lower(s) == [i \in 1..Len(s) |-> LowerChar(s[i])]

\* str.upper()
Upper(s) ==
    [i \in 1..Len(s) |->
        IF \E k \in DOMAIN LowerChars : LowerChars[k] = s[i]
        THEN UpperChars[CHOOSE k \in DOMAIN LowerChars : LowerChars[k] = s[i]]
        ELSE s[i]]

\* s.rstrip(c) of one character
RECURSIVE RStrip(_, _)
RStrip(s, c) ==
    IF s # <<>> /\ s[Len(s)] = c THEN RStrip(SubSeq(s, 1, Len(s) - 1), c) ELSE s

\* s[i:i+len(lit)] == lit
HasAt(s, i, lit) ==
    /\ i >= 1
    /\ i + Len(lit) - 1 <= Len(s)
    /\ \A k \in 1..Len(lit) : s[i + k - 1] = lit[k]

\* lit in s
Contains(s, lit) == \E i \in 1..(Len(s) + 1) : HasAt(s, i, lit)

\* s.startswith(lit)
StartsWith(s, lit) == HasAt(s, 1, lit)

\* s.find(lit), 1-based; 0 when lit does not occur
Find(s, lit) ==
    IF Contains(s, lit)
    THEN CHOOSE i \in 1..(Len(s) + 1) :
            HasAt(s, i, lit) /\ \A j \in 1..(i - 1) : ~HasAt(s, j, lit)
    ELSE 0

\* s.split(sep) for a non-empty separator
RECURSIVE Split(_, _)
Split(s, sep) ==
    LET CutAt(i) ==
            IF i = 0
            THEN <<s>>
            ELSE <<SubSeq(s, 1, i - 1)>> \o Split(SubSeq(s, i + Len(sep), Len(s)), sep)
    IN  CutAt(Find(s, sep))

\* parts[-1]
Last(parts) == parts[Len(parts)]

\* s.strip() of blanks
RECURSIVE Strip(_)
Strip(s) ==
    IF s = <<>> THEN s
    ELSE IF s[1] = " " THEN Strip(Tail(s))
    ELSE IF s[Len(s)] = " " THEN Strip(SubSeq(s, 1, Len(s) - 1))
    ELSE s

\* the value of a run of decimal digits
RECURSIVE DigitsValue(_)
DigitsValue(ds) ==
    IF ds = <<>> THEN 0
    ELSE 10 * DigitsValue(SubSeq(ds, 1, Len(ds) - 1)) + DigitVal(ds[Len(ds)])

\* ds without its leading zeros
RECURSIVE Significant(_)
Significant(ds) ==
    IF ds # <<>> /\ ds[1] = "0" THEN Significant(Tail(ds)) ELSE ds

\* the run of digits names a number above 2^31 - 1 (2^31 when negative): the
\* int does not fit the C int that datetime.date takes
TooWide(ds, negative) ==
    LET Above(high, low) ==
            \/ high > 214748364
            \/ high = 214748364 /\ low > (IF negative THEN 8 ELSE 7)
        Wide(sig) ==
            \/ Len(sig) > 10
            \/ Len(sig) = 10 /\ Above(DigitsValue(SubSeq(sig, 1, 9)), DigitVal(sig[10]))
    IN  Wide(Significant(ds))

\* int(s): blanks around, an optional sign, digits with single underscores
\* between them; anything else is a ValueError. Python's int is unbounded:
\* wide marks a value beyond a C int, whose v is not computed
PyInt(s) ==
    LET Value(digits, negative, wide) ==
            [kind |-> "int",
             wide |-> wide,
             v |-> IF wide THEN 0
                   ELSE IF negative THEN 0 - DigitsValue(digits)
                   ELSE DigitsValue(digits)]
        Digits(digits, negative) == Value(digits, negative, TooWide(digits, negative))
        WellFormed(body) ==
            /\ body # <<>>
            /\ \A i \in 1..Len(body) : IsDigit(body[i]) \/ body[i] = "_"
            /\ IsDigit(body[1]) /\ IsDigit(body[Len(body)])
            /\ \A i \in 1..(Len(body) - 1) : ~(body[i] = "_" /\ body[i + 1] = "_")
        Body(body, negative) ==
            IF ~WellFormed(body) THEN Raised("ValueError")
            ELSE Digits(SelectSeq(body, IsDigit), negative)
        Signed(t, signed) == Body(IF signed THEN Tail(t) ELSE t, signed /\ t[1] = "-")
        Stripped(t) == Signed(t, t # <<>> /\ t[1] \in {"+", "-"})
    IN  Stripped(Strip(s))

-----------------------------------------------------------------------------
(* re.search(r"<lit>[<cls>](\d+)", s, flags): a pattern is a literal, an    *)
(* optional character class after it (cls = {} when the pattern has none)  *)
(* and the captured run of digits.                                         *)

Fold(s, icase) == IF icase THEN Lower(s) ELSE s

\* the position of the captured group when the pattern matches at i
GroupStart(pat, i) == i + Len(pat.lit) + (IF pat.cls = {} THEN 0 ELSE 1)

MatchesAt(pat, s, i, icase) ==
    /\ HasAt(Fold(s, icase), i, Fold(pat.lit, icase))
    /\ pat.cls # {} => /\ i + Len(pat.lit) <= Len(s)
                       /\ s[i + Len(pat.lit)] \in pat.cls
    /\ GroupStart(pat, i) <= Len(s)
    /\ IsDigit(s[GroupStart(pat, i)])

\* \d+ is greedy: the longest run of digits from position j
RECURSIVE DigitRun(_, _)
DigitRun(s, j) ==
    IF j <= Len(s) /\ IsDigit(s[j]) THEN <<s[j]>> \o DigitRun(s, j + 1) ELSE <<>>

\* match.group(1) of the leftmost match, None when there is no match
ReSearch(pat, s, icase) ==
    IF \E i \in 1..Len(s) : MatchesAt(pat, s, i, icase)
    THEN LET i == CHOOSE k \in 1..Len(s) :
                    /\ MatchesAt(pat, s, k, icase)
                    /\ \A j \in 1..(k - 1) : ~MatchesAt(pat, s, j, icase)
         IN  DigitRun(s, GroupStart(pat, i))
    ELSE None

\* the result of trying the patterns in list order: the first one that matches
RECURSIVE FirstMatch(_, _, _)
FirstMatch(patterns, s, icase) ==
    IF patterns = <<>> THEN None
    ELSE LET OrNext(g) == IF g # None THEN g ELSE FirstMatch(Tail(patterns), s, icase)
         IN  OrNext(ReSearch(Head(patterns), s, icase))

-----------------------------------------------------------------------------
(* Identifier extractors *)

FBbiColon == <<"F", "B", "b", "i", ":">>
FBbiUnderscore == <<"F", "B", "b", "i", "_">>

ROCrateFbbiPatterns ==
    << [lit |-> <<"F", "B", "b", "i">>, cls |-> {"_", ":"}],
       [lit |-> <<"f", "b", "b", "i">>, cls |-> {"_", ":"}] >>

ROCrateFbbiCaseSensitive(url_or_id) ==
    IF url_or_id = None \/ url_or_id = <<>> THEN None
    ELSE LET Fbbi(g) == IF g = None THEN None ELSE FBbiColon \o g
         IN  Fbbi(ReSearch([lit |-> <<"F", "B", "b", "i">>, cls |-> {"_"}], url_or_id, FALSE))

\* gide_search ROCrateTransformer._extract_fbbi_id
ROCrate_extract_fbbi_id(url_or_id) ==
    IF url_or_id = None \/ url_or_id = <<>> THEN None
    ELSE LET Fbbi(g) == IF g = None THEN None ELSE FBbiColon \o g
         IN  Fbbi(FirstMatch(ROCrateFbbiPatterns, url_or_id, TRUE))

ROCrateNcbiPatterns ==
    << [lit |-> <<"N", "C", "B", "I", "T", "a", "x", "o", "n">>, cls |-> {"_", ":"}],
       [lit |-> <<"N", "C", "B", "I", ":", "t", "x", "i", "d">>, cls |-> {}],
       [lit |-> <<"n", "c", "b", "i", "t", "a", "x", "o", "n", "/">>, cls |-> {}] >>

ROCrateNcbiOnlyPurl(url_or_id) ==
    IF url_or_id = None \/ url_or_id = <<>> THEN NoInt
    ELSE LET Taxon(g) == IF g = None THEN NoInt ELSE DigitsValue(g)
         IN  Taxon(FirstMatch(<<ROCrateNcbiPatterns[1]>>, url_or_id, FALSE))

\* gide_search ROCrateTransformer._extract_ncbi_taxon_id
ROCrate_extract_ncbi_taxon_id(url_or_id) ==
    IF url_or_id = None \/ url_or_id = <<>> THEN NoInt
    ELSE LET Taxon(g) == IF g = None THEN NoInt ELSE DigitsValue(g)
         IN  Taxon(FirstMatch(ROCrateNcbiPatterns, url_or_id, TRUE))

\* IDRTransformer._extract_fbbi_id
IDR_extract_fbbi_id(accession) ==
    IF accession = None \/ accession = <<>> THEN None
    ELSE LET Fbbi(g) == IF g = None THEN None ELSE FBbiColon \o g
         IN  Fbbi(ReSearch([lit |-> <<"F", "B", "b", "i", "_">>, cls |-> {}], accession, FALSE))

\* SSBDTransformer._extract_fbbi_id
SSBD_extract_fbbi_id(uri) ==
    IF Contains(uri, FBbiUnderscore)
    THEN FBbiColon \o Last(Split(uri, FBbiUnderscore))
    ELSE None

\* the FBbi formatting of BIATransformer._extract_imaging_methods
BIA_format_fbbi_id(fbbi_id) ==
    IF fbbi_id # None /\ fbbi_id # <<>> /\ ~StartsWith(fbbi_id, FBbiColon)
    THEN FBbiColon \o fbbi_id
    ELSE fbbi_id

-----------------------------------------------------------------------------
(* Dates: datetime.date and the _parse_date of each adapter *)

IsLeap(y) == (y % 4 = 0 /\ y % 100 # 0) \/ y % 400 = 0

DaysInMonth(y, m) ==
    IF m \in {1, 3, 5, 7, 8, 10, 12} THEN 31
    ELSE IF m \in {4, 6, 9, 11} THEN 30
    ELSE IF IsLeap(y) THEN 29 ELSE 28

Date(y, m, d) == [kind |-> "date", y |-> y, m |-> m, d |-> d]

\* datetime.date(y, m, d): a ValueError outside the calendar
PyDate(y, m, d) ==
    IF y >= 1 /\ y <= 9999 /\ m >= 1 /\ m <= 12 /\ d >= 1 /\ d <= DaysInMonth(y, m)
    THEN Date(y, m, d)
    ELSE Raised("ValueError")

\* an argument of _parse_date, as Python sees it: None, a str or a list of str
PyNone == [t |-> "none", s |-> <<>>, items |-> <<>>]
PyStr(s) == [t |-> "str", s |-> s, items |-> <<>>]
PyList(items) == [t |-> "list", s |-> <<>>, items |-> items]

\* not v
Falsy(v) ==
    \/ v.t = "none"
    \/ v.t = "str" /\ v.s = <<>>
    \/ v.t = "list" /\ v.items = <<>>

\* parts = s.split("-"); date(int(parts[0]), int(parts[1]), int(parts[2]));
\* date() raises OverflowError for an argument beyond a C int
DateOfParts(s) ==
    LET OfInts(y, m, d) ==
            IF d.kind = "raise" THEN d
            ELSE IF y.wide \/ m.wide \/ d.wide THEN Raised("OverflowError")
            ELSE PyDate(y.v, m.v, d.v)
        Third(parts, y, m) ==
            IF m.kind = "raise" THEN m
            ELSE IF Len(parts) < 3 THEN Raised("IndexError")
            ELSE OfInts(y, m, PyInt(parts[3]))
        Second(parts, y) ==
            IF y.kind = "raise" THEN y
            ELSE IF Len(parts) < 2 THEN Raised("IndexError")
            ELSE Third(parts, y, PyInt(parts[2]))
        First(parts) == Second(parts, PyInt(parts[1]))
    IN  First(Split(s, <<"-">>))

\* except (ValueError, IndexError)
Caught(r) == r.kind = "raise" /\ r.exc \in {"ValueError", "IndexError"}

\* the body shared by the three _parse_date methods: the default for a falsy
\* argument, AttributeError for an argument without split, the default when
\* the try block raises ValueError or IndexError, any other exception raised
ParseDateWith(date_str, default) ==
    IF Falsy(date_str) THEN default
    ELSE IF date_str.t # "str" THEN Raised("AttributeError")
    ELSE LET Except(r) == IF Caught(r) THEN default ELSE r
         IN  Except(DateOfParts(date_str.s))

ROCrateDefaultDate == Date(2024, 1, 1)
IDRDefaultDate == Date(2016, 1, 1)
BIADefaultDate == Date(2024, 1, 1)
SSBDDefaultDate == Date(2025, 5, 12)

\* gide_search ROCrateTransformer._parse_date
ROCrate_parse_date(date_str) == ParseDateWith(date_str, ROCrateDefaultDate)

\* IDRTransformer._parse_date
IDR_parse_date(date_str) == ParseDateWith(date_str, IDRDefaultDate)

\* BIATransformer._parse_date
BIA_parse_date(date_str) == ParseDateWith(date_str, BIADefaultDate)

\* the release date of SSBDTransformer.transform_dataset; submission_date is
\* the str of a literal, or None when the project has none
SSBD_release_date(submission_date) ==
    IF submission_date = None \/ submission_date = <<>> THEN SSBDDefaultDate
    ELSE LET Except(r) == IF Caught(r) THEN SSBDDefaultDate ELSE r
         IN  Except(DateOfParts(submission_date))

-----------------------------------------------------------------------------
(* The strings the extractors and the date parsers are applied to *)

MaxDigits == 2
MaxDateParts == 3

IdDigits == {"0", "2", "9"}
DigitStrings == UNION {[1..n -> IdDigits] : n \in 0..MaxDigits}
NonEmptyDigitStrings == DigitStrings \ {<<>>}

OboPurl == <<"h", "t", "t", "p", ":", "/", "/", "p", "u", "r", "l", ".", "o", "b", "o",
             "l", "i", "b", "r", "a", "r", "y", ".", "o", "r", "g", "/", "o", "b", "o", "/">>
OboPrefix == <<"o", "b", "o", ":">>
NCBITaxon == <<"N", "C", "B", "I", "T", "a", "x", "o", "n">>
NcbiTxid == <<"N", "C", "B", "I", ":", "t", "x", "i", "d">>

\* the four recognised shapes of an FBbi term with digits d
FbbiShapes(d) ==
    { OboPurl \o FBbiUnderscore \o d,
      OboPrefix \o FBbiUnderscore \o d,
      FBbiUnderscore \o d,
      FBbiColon \o d }

\* the three recognised shapes of an NCBI taxon with digits d
NcbiShapes(d) ==
    { OboPurl \o NCBITaxon \o <<"_">> \o d,
      NcbiTxid \o d,
      NCBITaxon \o <<":">> \o d }

IdPrefixes == {<<>>, OboPrefix, OboPurl}
IdStems == { <<"F", "B", "b", "i">>, <<"f", "b", "b", "i">>, NCBITaxon, Lower(NCBITaxon),
             <<"N", "C", "B", "I">>, <<"G", "O">> }
IdSeparators == { <<"_">>, <<":">>, <<"/">>, <<":", "t", "x", "i", "d">> }

IdStrings ==
    { p \o st \o sep \o d : p \in IdPrefixes, st \in IdStems,
                            sep \in IdSeparators, d \in DigitStrings }

\* two identifiers in one string, to tell which pattern decides
IdDoubles ==
    { a \o <<" ">> \o b :
        a \in UNION {NcbiShapes(d) \cup {Lower(NCBITaxon) \o <<"/">> \o d} : d \in NonEmptyDigitStrings},
        b \in UNION {NcbiShapes(d) : d \in {<<"2">>, <<"9", "0">>}} }

IdInputs == {None, <<>>} \cup IdStrings \cup IdDoubles

DateComponents ==
    { <<"2", "0", "2", "4">>, <<"2", "1", "4", "7", "4", "8", "3", "6", "4", "8">>, <<"0", "2">>, <<"1", "5">>,
      <<"2", "9">>, <<"4", "5">>, <<"0">>, <<" ", "1">>, <<"x">>, <<>> }

RECURSIVE JoinDash(_)
JoinDash(parts) ==
    IF Len(parts) = 1 THEN parts[1]
    ELSE parts[1] \o <<"-">> \o JoinDash(Tail(parts))

DateStrings ==
    { JoinDash(ps) : ps \in UNION {[1..n -> DateComponents] : n \in 1..MaxDateParts} }

DateArgs ==
    {PyNone, PyList(<<>>), PyList(<< <<"2", "0", "2", "4", "-", "0", "2", "-", "1", "5">> >>)}
        \cup {PyStr(s) : s \in DateStrings}

-----------------------------------------------------------------------------
(* The normalizers as operations: one of them is applied to one input *)

Idle ==
    /\ generated_ids = {} /\ calls = <<>> /\ ssbd = [pc |-> "idle"]
    /\ fbbi_label_cache = {} /\ index = <<>>
    /\ workers = <<>> /\ iri_cache = {} /\ requests = <<>>

InitNorm == op = "init" /\ arg = None /\ ret = None /\ Idle

ExtractFbbiId ==
    /\ op = "init"
    /\ \E s \in IdInputs :
        /\ op' = "ROCrate._extract_fbbi_id"
        /\ arg' = s
        /\ ret' = ROCrate_extract_fbbi_id(s)
    /\ UNCHANGED <<generated_ids, calls, ssbd, fbbi_label_cache, index, workers, iri_cache, requests>>

\* the extractor applied to what it returned
ExtractFbbiIdAgain ==
    /\ op = "ROCrate._extract_fbbi_id"
    /\ ret # None
    /\ op' = "ROCrate._extract_fbbi_id(result)"
    /\ arg' = ret
    /\ ret' = ROCrate_extract_fbbi_id(ret)
    /\ UNCHANGED <<generated_ids, calls, ssbd, fbbi_label_cache, index, workers, iri_cache, requests>>

ExtractNcbiTaxonId ==
    /\ op = "init"
    /\ \E s \in IdInputs :
        /\ op' = "ROCrate._extract_ncbi_taxon_id"
        /\ arg' = s
        /\ ret' = ROCrate_extract_ncbi_taxon_id(s)
    /\ UNCHANGED <<generated_ids, calls, ssbd, fbbi_label_cache, index, workers, iri_cache, requests>>

ROCrateParseDate ==
    /\ op = "init"
    /\ \E a \in DateArgs :
        /\ op' = "ROCrate._parse_date"
        /\ arg' = a
        /\ ret' = ROCrate_parse_date(a)
    /\ UNCHANGED <<generated_ids, calls, ssbd, fbbi_label_cache, index, workers, iri_cache, requests>>

IDRParseDate ==
    /\ op = "init"
    /\ \E a \in DateArgs :
        /\ op' = "IDR._parse_date"
        /\ arg' = a
        /\ ret' = IDR_parse_date(a)
    /\ UNCHANGED <<generated_ids, calls, ssbd, fbbi_label_cache, index, workers, iri_cache, requests>>

BIAParseDate ==
    /\ op = "init"
    /\ \E a \in DateArgs :
        /\ op' = "BIA._parse_date"
        /\ arg' = a
        /\ ret' = BIA_parse_date(a)
    /\ UNCHANGED <<generated_ids, calls, ssbd, fbbi_label_cache, index, workers, iri_cache, requests>>

SSBDReleaseDate ==
    /\ op = "init"
    /\ \E s \in DateStrings \cup {None} :
        /\ op' = "SSBD.release_date"
        /\ arg' = IF s = None THEN PyNone ELSE PyStr(s)
        /\ ret' = SSBD_release_date(s)
    /\ UNCHANGED <<generated_ids, calls, ssbd, fbbi_label_cache, index, workers, iri_cache, requests>>

NextNorm ==
    \/ ExtractFbbiId
    \/ ExtractFbbiIdAgain
    \/ ExtractNcbiTaxonId
    \/ ROCrateParseDate
    \/ IDRParseDate
    \/ BIAParseDate
    \/ SSBDReleaseDate

SpecNorm == InitNorm /\ [][NextNorm]_vars

-----------------------------------------------------------------------------
(* C4, C6, C7: the identifier extractors and the date parsers *)

\* s holds "fbbi", then "_" or ":", then a digit, in any letter case
MentionsFbbi(s) ==
    \E i \in 1..Len(s) :
        /\ i + 5 <= Len(s)
        /\ Lower(SubSeq(s, i, i + 3)) = <<"f", "b", "b", "i">>
        /\ s[i + 4] \in {"_", ":"}
        /\ IsDigit(s[i + 5])

\* C4: each of the four shapes of an FBbi term with digits d is extracted as
\* "FBbi:" d; the extractor returns its own output unchanged; None and a
\* string without an FBbi term give None.
C4_FbbiCanonical ==
    /\ op = "ROCrate._extract_fbbi_id" =>
        /\ \A d \in NonEmptyDigitStrings : arg \in FbbiShapes(d) => ret = FBbiColon \o d
        /\ arg = None => ret = None
        /\ (arg # None /\ ~MentionsFbbi(arg)) => ret = None
    /\ op = "ROCrate._extract_fbbi_id(result)" => ret = arg

C4_Witness ==
    /\ op = "ROCrate._extract_fbbi_id(result)"
    /\ arg = FBbiColon \o <<"0", "2">>
    /\ ret = FBbiColon \o <<"0", "2">>

\* s holds one of the taxon prefixes followed by a digit, in any letter case
MentionsNcbi(s) ==
    \E i \in 1..Len(s) :
        \E lit \in { Lower(NCBITaxon) \o <<"_">>, Lower(NCBITaxon) \o <<":">>,
                     Lower(NcbiTxid), Lower(NCBITaxon) \o <<"/">> } :
            /\ HasAt(Lower(s), i, lit)
            /\ i + Len(lit) <= Len(s)
            /\ IsDigit(s[i + Len(lit)])

\* C6: each of the three shapes of a taxon with digits d gives the integer d;
\* when a string matches NCBITaxon[_:] and NCBI:txid, the first pattern of the
\* list decides, wherever the other stands; None, "" and a string matching no
\* pattern give None; the result is always an int or None, never an exception.
C6_NcbiTaxonId ==
    op = "ROCrate._extract_ncbi_taxon_id" =>
        /\ ret \in Int
        /\ \A d \in NonEmptyDigitStrings : arg \in NcbiShapes(d) => ret = DigitsValue(d)
        /\ \A d1 \in NonEmptyDigitStrings, d2 \in {<<"2">>, <<"9", "0">>} :
              arg = NcbiTxid \o d1 \o <<" ">> \o NCBITaxon \o <<":">> \o d2
                  => ret = DigitsValue(d2)
        /\ arg \in {None, <<>>} => ret = NoInt
        /\ (arg # None /\ ~MentionsNcbi(arg)) => ret = NoInt

C6_Witness ==
    /\ op = "ROCrate._extract_ncbi_taxon_id"
    /\ arg = NcbiTxid \o <<"9">> \o <<" ">> \o NCBITaxon \o <<":">> \o <<"2">>
    /\ ret = 2

DateOps == {"ROCrate._parse_date", "IDR._parse_date", "BIA._parse_date", "SSBD.release_date"}

DefaultDateOf(name) ==
    IF name = "IDR._parse_date" THEN IDRDefaultDate
    ELSE IF name = "SSBD.release_date" THEN SSBDDefaultDate
    ELSE IF name = "BIA._parse_date" THEN BIADefaultDate
    ELSE ROCrateDefaultDate

\* s is YYYY-MM-DD and names a day of the calendar
IsIsoDate(s) ==
    /\ Len(s) = 10
    /\ s[5] = "-" /\ s[8] = "-"
    /\ \A i \in {1, 2, 3, 4, 6, 7, 9, 10} : IsDigit(s[i])
    /\ PyDate(DigitsValue(SubSeq(s, 1, 4)), DigitsValue(SubSeq(s, 6, 7)),
              DigitsValue(SubSeq(s, 9, 10))).kind = "date"

\* C7: date normalization is total: a well-formed YYYY-MM-DD string gives
\* that date; None, a sequence in place of a string and a string that does
\* not parse give the adapter's default date; no exception leaves the parser.
C7_DateTotal ==
    op \in DateOps =>
        /\ ret.kind = "date"
        /\ (arg.t = "str" /\ IsIsoDate(arg.s)) =>
              ret = Date(DigitsValue(SubSeq(arg.s, 1, 4)), DigitsValue(SubSeq(arg.s, 6, 7)),
                         DigitsValue(SubSeq(arg.s, 9, 10)))
        /\ arg.t # "str" => ret = DefaultDateOf(op)
        /\ (arg.t = "str" /\ DateOfParts(arg.s).kind = "raise") => ret = DefaultDateOf(op)

-----------------------------------------------------------------------------
(* gide_search_v2: the reference ids of the RO-Crate writer.                *)
(* One BIAROCrateTransformer instance serves every hit of a run (cli.py),   *)
(* so generated_ids lives across the documents it transforms.              *)

MaxCalls == 2
MaxAuthors == 2

\* "#" + str(UUID(hex=md5(key).hexdigest())): the digest is modelled as
\* collision-free, the reference being the key behind the "#" mark
RelativeRef(key) == <<"#">> \o key

\* _generate_ref_id that never hashes again
RefIdForKeyOnly(key, force_unique, ids) == RelativeRef(key)

\* ROCrateTransformer._generate_ref_id: the reference returned; with
\* force_unique a reference already generated is hashed again
RECURSIVE RefIdFor(_, _, _)
RefIdFor(key, force_unique, ids) ==
    LET relative_ref == RelativeRef(key)
    IN  IF force_unique /\ relative_ref \in ids
        THEN RefIdFor(relative_ref, TRUE, ids)
        ELSE relative_ref

\* ROCrateTransformer._generate_ref_id: generated_ids after the call (the
\* call that recurses adds the one reference both levels return)
RefIdsAfter(key, force_unique, ids) == ids \cup {RefIdFor(key, force_unique, ids)}

OrcidBaseUrl ==
    <<"h", "t", "t", "p", "s", ":", "/", "/", "o", "r", "c", "i", "d", ".", "o", "r", "g", "/">>

\* BIAROCrateTransformer._standardise_orcid
StandardiseOrcid(orcid_id) ==
    IF ~StartsWith(orcid_id, OrcidBaseUrl) THEN OrcidBaseUrl \o orcid_id ELSE orcid_id

\* BIAROCrateTransformer._get_affiliation: the nodes and generated_ids after
RECURSIVE GetAffiliation(_, _)
GetAffiliation(bia_affiliation_list, ids) ==
    IF bia_affiliation_list = <<>> THEN [nodes |-> <<>>, ids |-> ids]
    ELSE LET a == Head(bia_affiliation_list)
             generated == a.rorid = None \/ a.rorid = <<>>
             id == IF generated THEN RefIdFor(a.display_name, FALSE, ids) ELSE a.rorid
             rest == GetAffiliation(Tail(bia_affiliation_list),
                                    IF generated THEN ids \cup {id} ELSE ids)
         IN  [nodes |-> <<[id |-> id, name |-> a.display_name]>> \o rest.nodes,
              ids |-> rest.ids]

\* BIAROCrateTransformer._get_authors: the Person nodes and generated_ids after
RECURSIVE GetAuthors(_, _)
GetAuthors(bia_authors, ids) ==
    IF bia_authors = <<>> THEN [nodes |-> <<>>, ids |-> ids]
    ELSE LET a == Head(bia_authors)
             generated == a.orcid = None \/ a.orcid = <<>>
             id == IF generated THEN RefIdFor(a.display_name, TRUE, ids)
                   ELSE StandardiseOrcid(a.orcid)
             aff == GetAffiliation(a.affiliation, IF generated THEN ids \cup {id} ELSE ids)
             rest == GetAuthors(Tail(bia_authors), aff.ids)
         IN  [nodes |-> <<[id |-> id, name |-> a.display_name, affiliation |-> aff.nodes]>>
                            \o rest.nodes,
              ids |-> rest.ids]

Ann == <<"A", "n", "n">>
Bob == <<"B", "o", "b">>
Ebi == <<"E", "B", "I">>

BiaAuthors ==
    { [display_name |-> Ann, orcid |-> None, affiliation |-> <<>>],
      [display_name |-> Ann, orcid |-> <<"0", "0", "0", "1">>, affiliation |-> <<>>],
      [display_name |-> Bob, orcid |-> None,
       affiliation |-> <<[display_name |-> Ebi, rorid |-> None]>>],
      [display_name |-> Bob, orcid |-> OrcidBaseUrl \o <<"0", "0", "0", "2">>,
       affiliation |-> <<[display_name |-> Ebi, rorid |-> <<"r", "o", "r", "1">>]>>] }

BiaAuthorLists == UNION {[1..n -> BiaAuthors] : n \in 1..MaxAuthors}

RefKeys == {Ann, Ebi}

InitRef ==
    /\ op = "init" /\ arg = None /\ ret = None
    /\ generated_ids = {}
    /\ calls = <<>>
    /\ ssbd = [pc |-> "idle"]
    /\ fbbi_label_cache = {}
    /\ index = <<>>
    /\ workers = <<>>
    /\ iri_cache = {} /\ requests = <<>>

\* one call of _generate_ref_id on the instance
GenerateRefId ==
    /\ Len(calls) < MaxCalls
    /\ \E key \in RefKeys, force_unique \in BOOLEAN :
        /\ generated_ids' = RefIdsAfter(key, force_unique, generated_ids)
        /\ calls' = Append(calls, [fn |-> "_generate_ref_id",
                                   input |-> <<key, force_unique>>,
                                   output |-> RefIdFor(key, force_unique, generated_ids)])
    /\ UNCHANGED <<op, arg, ret, ssbd, fbbi_label_cache, index, workers, iri_cache, requests>>

\* the authors of one document transformed on the instance
TransformAuthors ==
    /\ Len(calls) < MaxCalls
    /\ \E bia_authors \in BiaAuthorLists :
        LET r == GetAuthors(bia_authors, generated_ids)
        IN  /\ generated_ids' = r.ids
            /\ calls' = Append(calls, [fn |-> "_get_authors",
                                       input |-> bia_authors,
                                       output |-> r.nodes])
    /\ UNCHANGED <<op, arg, ret, ssbd, fbbi_label_cache, index, workers, iri_cache, requests>>

NextRef == GenerateRefId \/ TransformAuthors

SpecRef == InitRef /\ [][NextRef]_vars

\* C1: the same input transformed twice, also on one instance, gives the
\* same output, and _generate_ref_id returns the same reference each time
\* it is called with the same key.
C1_SameInputSameOutput ==
    \A i, j \in DOMAIN calls :
        (calls[i].fn = calls[j].fn /\ calls[i].input = calls[j].input)
            => calls[i].output = calls[j].output

-----------------------------------------------------------------------------
(* gide_search: the records of the unified schema and the JSON the adapters *)
(* read. A dict is a record whose missing keys read as None (dict.get); a  *)
(* reference is the "@id" it names; a list of references is a sequence.    *)

Unknown == <<"U", "n", "k", "n", "o", "w", "n">>

\* bool(v) of a str or None
Truthy(v) == v # None /\ v # <<>>

\* a or b
Or(a, b) == IF Truthy(a) THEN a ELSE b

\* entity.get(key)
Get(entity, key) == IF key \in DOMAIN entity THEN entity[key] ELSE None

\* entity.get(key) or [], a single dict taken as a list of one
GetRefs(entity, key) == IF key \in DOMAIN entity THEN entity[key] ELSE <<>>

RECURSIVE Concat(_)
Concat(seqs) == IF seqs = <<>> THEN <<>> ELSE Head(seqs) \o Concat(Tail(seqs))

Organism(scientific_name, ncbi_taxon_id) ==
    [scientific_name |-> scientific_name, ncbi_taxon_id |-> ncbi_taxon_id]

ImagingMethod(name, fbbi_id) == [name |-> name, fbbi_id |-> fbbi_id]

Publication(doi, pubmed_id, pmc_id, title, authors_name, year) ==
    [doi |-> doi, pubmed_id |-> pubmed_id, pmc_id |-> pmc_id, title |-> title,
     authors_name |-> authors_name, year |-> year]

Funding(funder, grant_id) == [funder |-> funder, grant_id |-> grant_id]

\* a transform that returns None
NoStudy == [kind |-> "none"]

\* Source, a str Enum: a member is its value
SourceIDR == <<"I", "D", "R">>
SourceSSBD == <<"S", "S", "B", "D">>
SourceBIA == <<"B", "I", "A">>

\* the member rocrate.py names Source.EXTERNAL
SourceEXTERNAL == <<"E", "X", "T", "E", "R", "N", "A", "L">>

\* the keyword arguments id, source, title, description and license
Described(id, source, title, description, license) ==
    [id |-> id, source |-> source, title |-> title, description |-> description,
     license |-> license]

\* the fields of Study that the adapters compute from the structured input
Study(adapter, head, release_date, organism, methods, publications, funding) ==
    [kind |-> "study", adapter |-> adapter,
     id |-> head.id, source |-> head.source, title |-> head.title,
     description |-> head.description, license |-> head.license,
     release_date |-> release_date,
     biosamples |-> <<[organism |-> organism]>>,
     image_acquisition_protocols |-> <<[methods |-> methods]>>,
     publications |-> publications, funding |-> funding]

-----------------------------------------------------------------------------
(* gide_search ROCrateTransformer *)

\* _build_entity_map: the last entity of the graph with an "@id" wins
ROCrate_build_entity_map(graph) ==
    [id \in {graph[i].id : i \in DOMAIN graph} |->
        graph[CHOOSE i \in DOMAIN graph :
                /\ graph[i].id = id
                /\ \A j \in DOMAIN graph : graph[j].id = id => j <= i]]

RootId == <<".", "/">>
DescriptorId == <<"r", "o", "-", "c", "r", "a", "t", "e", "-", "m", "e", "t", "a", "d", "a",
                  "t", "a", ".", "j", "s", "o", "n">>
DatasetType == <<"D", "a", "t", "a", "s", "e", "t">>
BiaStudyType == <<"b", "i", "a", ":", "S", "t", "u", "d", "y">>
BioSampleWord == <<"B", "i", "o", "S", "a", "m", "p", "l", "e">>

\* "t in entity_types"
HasType(entity, t) == \E i \in DOMAIN GetRefs(entity, "type") : entity.type[i] = t

ROCrateRootOfAnyType(graph) ==
    LET roots == {i \in DOMAIN graph : graph[i].id = RootId}
        First(S) == CHOOSE i \in S : \A j \in S : i <= j
    IN  IF roots # {} THEN First(roots) ELSE 0

\* _find_root_dataset: the index in the graph of the root, 0 for None
ROCrate_find_root_dataset(graph) ==
    LET roots == {i \in DOMAIN graph :
                    /\ graph[i].id = RootId
                    /\ HasType(graph[i], DatasetType) \/ HasType(graph[i], BiaStudyType)}
        described == {i \in DOMAIN graph :
                        \E k \in DOMAIN graph :
                            /\ graph[k].id = DescriptorId
                            /\ graph[i].id = Get(graph[k], "about")
                            /\ \A k2 \in DOMAIN graph :
                                  (k2 < k /\ graph[k2].id = DescriptorId)
                                      => \A e \in DOMAIN graph : graph[e].id # Get(graph[k2], "about")}
        First(S) == CHOOSE i \in S : \A j \in S : i <= j
    IN  IF roots # {} THEN First(roots)
        ELSE IF described # {} THEN First(described)
        ELSE 0

\* _resolve_entities: the entities the references resolve to, in order
RECURSIVE ROCrate_resolve_entities(_, _)
ROCrate_resolve_entities(refs, entity_map) ==
    IF refs = <<>> THEN <<>>
    ELSE (IF Head(refs) \in DOMAIN entity_map THEN <<entity_map[Head(refs)]>> ELSE <<>>)
            \o ROCrate_resolve_entities(Tail(refs), entity_map)

\* _extract_organisms_from_biosample, one reference of organismClassification:
\* acc holds the organisms list and the seen set the caller passes in
OrganismOfRef(ref, entity_map, acc) ==
    IF ref \notin DOMAIN entity_map
    THEN LET Dangling(ncbi_id) ==
                IF ncbi_id # NoInt /\ ncbi_id # 0 /\ ref \notin acc.seen
                THEN [organisms |-> Append(acc.organisms,
                                           Organism(IF Contains(ref, <<":">>)
                                                    THEN Last(Split(ref, <<":">>)) ELSE ref,
                                                    ncbi_id)),
                      seen |-> acc.seen \cup {ref}]
                ELSE acc
         IN  Dangling(ROCrate_extract_ncbi_taxon_id(ref))
    ELSE LET Resolved(taxon, scientific_name) ==
                IF scientific_name \in acc.seen THEN acc
                ELSE [organisms |-> Append(acc.organisms,
                                           Organism(scientific_name,
                                                    ROCrate_extract_ncbi_taxon_id(taxon.id))),
                      seen |-> acc.seen \cup {scientific_name}]
         IN  Resolved(entity_map[ref],
                      Or(Or(Get(entity_map[ref], "scientificName"),
                            Get(entity_map[ref], "name")), Unknown))

\* the loop of _extract_organisms_from_biosample over org_refs
RECURSIVE ROCrate_extract_organisms(_, _, _)
ROCrate_extract_organisms(org_refs, entity_map, acc) ==
    IF org_refs = <<>> THEN acc
    ELSE ROCrate_extract_organisms(Tail(org_refs), entity_map,
                                   OrganismOfRef(Head(org_refs), entity_map, acc))

\* _is_biosample
ROCrate_is_biosample(entity) ==
    \E i \in DOMAIN GetRefs(entity, "type") : Contains(entity.type[i], BioSampleWord)

\* _extract_biosample_info: the BioSamples it visits, those of the parts
\* first, then those under "about"
ROCrateBiosamples(root, entity_map) ==
    LET OfParts(parts) ==
            Concat([i \in DOMAIN parts |->
                      ROCrate_resolve_entities(GetRefs(parts[i], "associatedBiologicalEntity"),
                                               entity_map)])
    IN  OfParts(ROCrate_resolve_entities(GetRefs(root, "hasPart"), entity_map))
        \o SelectSeq(ROCrate_resolve_entities(GetRefs(root, "about"), entity_map),
                     ROCrate_is_biosample)

\* _extract_biosample_info without the fallback of lines 330-331
ROCrateOrganismsNoFallback(root, entity_map) ==
    LET Of(biosamples) ==
            ROCrate_extract_organisms(
                Concat([i \in DOMAIN biosamples |->
                          GetRefs(biosamples[i], "organismClassification")]),
                entity_map, [organisms |-> <<>>, seen |-> {}]).organisms
    IN  Of(ROCrateBiosamples(root, entity_map))

\* _extract_biosample_info: the organisms. One organisms list and one seen set
\* go through every BioSample, so the references are taken as one sequence.
ROCrate_extract_biosample_info(root, entity_map) ==
    LET OrUnknown(organisms) ==
            IF organisms = <<>> THEN <<Organism(Unknown, NoInt)>> ELSE organisms
        Of(biosamples) ==
            OrUnknown(ROCrate_extract_organisms(
                Concat([i \in DOMAIN biosamples |->
                          GetRefs(biosamples[i], "organismClassification")]),
                entity_map, [organisms |-> <<>>, seen |-> {}]).organisms)
    IN  Of(ROCrateBiosamples(root, entity_map))

\* _extract_methods_from_protocol: the names from position i on; acc holds
\* the methods list and the seen set
RECURSIVE ROCrate_extract_methods_from_protocol(_, _, _, _)
ROCrate_extract_methods_from_protocol(method_names, fbbi_ids, i, acc) ==
    IF i > Len(method_names) THEN acc
    ELSE LET name == method_names[i]
             fbbi_id == IF i <= Len(fbbi_ids) THEN fbbi_ids[i] ELSE None
         IN  ROCrate_extract_methods_from_protocol(method_names, fbbi_ids, i + 1,
                IF ~Truthy(name) \/ name \in acc.seen THEN acc
                ELSE [methods |-> Append(acc.methods,
                                         ImagingMethod(name, ROCrate_extract_fbbi_id(fbbi_id))),
                      seen |-> acc.seen \cup {name}])

\* the loop of _extract_imaging_info over the protocols of the parts
RECURSIVE MethodsOfProtocols(_, _)
MethodsOfProtocols(protocols, acc) ==
    IF protocols = <<>> THEN acc
    ELSE MethodsOfProtocols(Tail(protocols),
            ROCrate_extract_methods_from_protocol(
                GetRefs(Head(protocols), "imagingMethodName"),
                GetRefs(Head(protocols), "fbbiId"), 1, acc))

\* the loop of _extract_imaging_info over measurementTechnique: the BIA
\* properties first, else the Schema.org name and url
RECURSIVE MethodsOfTechniques(_, _)
MethodsOfTechniques(entities, acc) ==
    IF entities = <<>> THEN acc
    ELSE LET entity == Head(entities)
             name == Get(entity, "name")
             url == Or(Get(entity, "url"), entity.id)
         IN  MethodsOfTechniques(Tail(entities),
                IF GetRefs(entity, "imagingMethodName") # <<>> \/ GetRefs(entity, "fbbiId") # <<>>
                THEN ROCrate_extract_methods_from_protocol(
                        GetRefs(entity, "imagingMethodName"), GetRefs(entity, "fbbiId"), 1, acc)
                ELSE IF Truthy(name) /\ name \notin acc.seen
                THEN [methods |-> Append(acc.methods,
                                         ImagingMethod(name, ROCrate_extract_fbbi_id(url))),
                      seen |-> acc.seen \cup {name}]
                ELSE acc)

\* _extract_imaging_info: the methods
ROCrate_extract_imaging_info(root, entity_map) ==
    LET OrUnknown(methods) ==
            IF methods = <<>> THEN <<ImagingMethod(Unknown, None)>> ELSE methods
        Protocols(parts) ==
            Concat([i \in DOMAIN parts |->
                ROCrate_resolve_entities(GetRefs(parts[i], "associatedImageAcquisitionProtocol"),
                                         entity_map)])
        Of(protocols, techniques) ==
            OrUnknown(MethodsOfTechniques(techniques,
                          MethodsOfProtocols(protocols, [methods |-> <<>>, seen |-> {}])).methods)
    IN  Of(Protocols(ROCrate_resolve_entities(GetRefs(root, "hasPart"), entity_map)),
           ROCrate_resolve_entities(GetRefs(root, "measurementTechnique"), entity_map))

\* _extract_year
ROCrate_extract_year(date_str) ==
    IF ~Truthy(date_str) THEN NoInt
    ELSE LET Year(r) == IF r.kind = "raise" THEN NoInt ELSE r.v
         IN  Year(PyInt(Split(date_str, <<"-">>)[1]))

TenDot == <<"1", "0", ".">>

\* _extract_publications, one resolved entity
ROCratePublication(pub) ==
    LET doi == Or(Get(pub, "doi"), Get(pub, "identifier"))
    IN  Publication(IF Truthy(doi) /\ ~StartsWith(doi, TenDot) THEN None ELSE doi,
                    Or(Get(pub, "pubmed_id"), Get(pub, "pmid")),
                    Or(Get(pub, "pmc_id"), Get(pub, "pmcid")),
                    Or(Get(pub, "name"), Get(pub, "title")),
                    Get(pub, "authorNames"),
                    ROCrate_extract_year(Get(pub, "datePublished")))

\* _extract_publications
ROCrate_extract_publications(root, entity_map) ==
    LET Of(pubs) == [i \in DOMAIN pubs |-> ROCratePublication(pubs[i])]
    IN  Of(ROCrate_resolve_entities(
               IF GetRefs(root, "citation") # <<>> THEN GetRefs(root, "citation")
               ELSE GetRefs(root, "relatedPublication"),
               entity_map))

\* "if funder_name and grant_id"
FundingComplete(f) == Truthy(f.funder) /\ Truthy(f.grant_id)

\* _extract_funding
ROCrate_extract_funding(root, entity_map) ==
    LET Of(grants) ==
            SelectSeq([i \in DOMAIN grants |->
                         Funding(Or(Get(grants[i], "name"), Unknown),
                                 Or(Get(grants[i], "identifier"),
                                    Last(Split(grants[i].id, <<"/">>))))],
                      FundingComplete)
    IN  Of(ROCrate_resolve_entities(
               IF GetRefs(root, "funder") # <<>> THEN GetRefs(root, "funder")
               ELSE GetRefs(root, "grant"),
               entity_map))

\* ROCrateTransformer._infer_sample_type
ROCrate_infer_sample_type(description) ==
    LET Of(text) ==
            IF Contains(text, <<"t", "i", "s", "s", "u", "e">>) THEN "tissue"
            ELSE IF \/ Contains(text, <<"c", "e", "l", "l", " ", "l", "i", "n", "e">>)
                    \/ Contains(text, <<"c", "e", "l", "l", " ", "c", "u", "l", "t", "u", "r", "e">>)
                 THEN "cell"
            ELSE IF Contains(text, <<"o", "r", "g", "a", "n", "i", "s", "m">>) \/ Contains(text, <<"w", "h", "o", "l", "e">>)
                 THEN "organism"
            ELSE IF Contains(text, <<"c", "e", "l", "l">>) THEN "cell"
            ELSE "unknown"
    IN  IF ~Truthy(description) THEN "unknown" ELSE Of(Lower(description))

\* SOURCE_PATTERNS, in the order of the dict
SOURCE_PATTERNS ==
    <<[source |-> SourceIDR,
       patterns |-> {<<"i", "d", "r">>,
                     <<"i", "m", "a", "g", "e", " ", "d", "a", "t", "a", " ",
                       "r", "e", "s", "o", "u", "r", "c", "e">>,
                     <<"o", "p", "e", "n", "m", "i", "c", "r", "o", "s", "c", "o", "p", "y">>}],
      [source |-> SourceSSBD,
       patterns |-> {<<"s", "s", "b", "d">>, <<"r", "i", "k", "e", "n">>}],
      [source |-> SourceBIA,
       patterns |-> {<<"b", "i", "a">>,
                     <<"b", "i", "o", "i", "m", "a", "g", "e", " ",
                       "a", "r", "c", "h", "i", "v", "e">>,
                     <<"e", "m", "p", "i", "a", "r">>,
                     <<"e", "b", "i">>}]>>

\* _extract_id: accessionId, else identifier, else the last segment of url,
\* else "unknown"
ROCrate_extract_id(root) ==
    LET OfUrl(url) ==
            IF Truthy(url) THEN Last(Split(RStrip(url, "/"), <<"/">>))
            ELSE <<"u", "n", "k", "n", "o", "w", "n">>
        Of(accession) ==
            IF Truthy(accession) THEN accession ELSE OfUrl(Get(root, "url"))
    IN  Of(Or(Get(root, "accessionId"), Get(root, "identifier")))

ROCrateSourceByAccessionOnly(root, entity_map) ==
    LET ByAccession(accession_id) ==
            IF StartsWith(accession_id, <<"I", "D", "R">>) THEN SourceIDR
            ELSE IF StartsWith(accession_id, <<"S", "S", "B", "D">>) THEN SourceSSBD
            ELSE IF \/ StartsWith(accession_id, <<"S", "-", "B", "I", "A", "D">>)
                    \/ StartsWith(accession_id, <<"E", "M", "P", "I", "A", "R">>)
                 THEN SourceBIA
            ELSE SourceEXTERNAL
    IN  ByAccession(Upper(ROCrate_extract_id(root)))

\* _extract_source: the first source of SOURCE_PATTERNS with a pattern in the
\* publisher's text, else the source of the accession prefix, else EXTERNAL
ROCrate_extract_source(root, entity_map) ==
    LET ByAccession(accession_id) ==
            IF StartsWith(accession_id, <<"I", "D", "R">>) THEN SourceIDR
            ELSE IF StartsWith(accession_id, <<"S", "S", "B", "D">>) THEN SourceSSBD
            ELSE IF \/ StartsWith(accession_id, <<"S", "-", "B", "I", "A", "D">>)
                    \/ StartsWith(accession_id, <<"E", "M", "P", "I", "A", "R">>)
                 THEN SourceBIA
            ELSE SourceEXTERNAL
        Matching(text) ==
            {i \in DOMAIN SOURCE_PATTERNS :
                \E p \in SOURCE_PATTERNS[i].patterns : Contains(text, p)}
        First(S) == CHOOSE i \in S : \A j \in S : i <= j
        ByText(matching) ==
            IF matching # {} THEN SOURCE_PATTERNS[First(matching)].source
            ELSE ByAccession(Upper(ROCrate_extract_id(root)))
        ByPublisher(publisher) ==
            ByText(Matching(Lower(Or(Or(Get(publisher, "name"), publisher.id), <<>>))
                            \o <<" ">>
                            \o Lower(Or(Or(Get(publisher, "url"), publisher.id), <<>>))))
        Of(publisher_ref) ==
            IF Truthy(publisher_ref) /\ publisher_ref \in DOMAIN entity_map
            THEN ByPublisher(entity_map[publisher_ref])
            ELSE ByAccession(Upper(ROCrate_extract_id(root)))
    IN  Of(Get(root, "publisher"))

ROCrateDescribedByGetDefault(root, entity_map) ==
    LET GetOr(key, default) == IF key \in DOMAIN root THEN root[key] ELSE default
        Titled(source, accession_id, title) ==
            Described(Lower(source) \o <<":">> \o accession_id, source, title,
                      GetOr("description", title),
                      GetOr("licence", GetOr("license", Unknown)))
        Of(source, accession_id) ==
            Titled(source, accession_id, GetOr("title", GetOr("name", accession_id)))
    IN  Of(ROCrate_extract_source(root, entity_map), ROCrate_extract_id(root))

\* the id, source, title, description and license of transform_crate
ROCrateDescribed(root, entity_map) ==
    LET Titled(source, accession_id, title) ==
            Described(Lower(source) \o <<":">> \o accession_id, source, title,
                      Or(Get(root, "description"), title),
                      Or(Or(Get(root, "licence"), Get(root, "license")), Unknown))
        Of(source, accession_id) ==
            Titled(source, accession_id,
                   Or(Or(Get(root, "title"), Get(root, "name")), accession_id))
    IN  Of(ROCrate_extract_source(root, entity_map), ROCrate_extract_id(root))

\* transform_crate on the graph of a loaded file: ValueError without a root,
\* the exception of _parse_date when it raises, AttributeError when
\* root.get("identifier", "") is None (it has no startswith), else the record
ROCrate_transform_crate(graph) ==
    LET Record(root, entity_map, release_date) ==
            IF release_date.kind = "raise" THEN release_date
            ELSE Study("ROCrate", ROCrateDescribed(root, entity_map), release_date,
                       ROCrate_extract_biosample_info(root, entity_map),
                       ROCrate_extract_imaging_info(root, entity_map),
                       ROCrate_extract_publications(root, entity_map),
                       ROCrate_extract_funding(root, entity_map))
        OfRoot(root, entity_map) ==
            Record(root, entity_map,
                   ROCrate_parse_date(IF "datePublished" \in DOMAIN root
                                      THEN root.datePublished ELSE PyNone))
        Found(r) ==
            IF r = 0 THEN Raised("ValueError")
            ELSE IF "identifier" \in DOMAIN graph[r] /\ graph[r].identifier = None
                 THEN Raised("AttributeError")
            ELSE OfRoot(graph[r], ROCrate_build_entity_map(graph))
    IN  Found(ROCrate_find_root_dataset(graph))

\* transform_all over the crates rglob lists (a path that is a file is a list
\* of one): the list comprehension ends with the first exception
RECURSIVE ROCrate_transform_all(_)
ROCrate_transform_all(crates) ==
    IF crates = <<>> THEN [kind |-> "studies", studies |-> <<>>]
    ELSE LET Cons(study, rest) ==
                IF study.kind = "raise" THEN study
                ELSE IF rest.kind = "raise" THEN rest
                ELSE [kind |-> "studies", studies |-> <<study>> \o rest.studies]
         IN  Cons(ROCrate_transform_crate(Head(crates)),
                  ROCrate_transform_all(Tail(crates)))

-----------------------------------------------------------------------------
(* SSBDTransformer. The graph is a set of triples <<subject, predicate,     *)
(* object>>; an object is a URIRef or a Literal with its text v.           *)

UriRef(v) == [uri |-> TRUE, v |-> v]
Literal(v) == [uri |-> FALSE, v |-> v]

\* graph.objects(subject, predicate)
Objects(graph, subject, predicate) ==
    {t[3] : t \in {u \in graph : u[1] = subject /\ u[2] = predicate}}

\* graph.subjects(predicate, object)
Subjects(graph, predicate, object) ==
    {t[1] : t \in {u \in graph : u[2] = predicate /\ u[3] = object}}

\* the order in which the store yields the members of S: fixed, unspecified
RECURSIVE StoreOrder(_)
StoreOrder(S) ==
    IF S = {} THEN <<>>
    ELSE LET x == CHOOSE y \in S : TRUE IN <<x>> \o StoreOrder(S \ {x})

\* _get_literal: str of the first object the store yields
SSBD_get_literal(graph, subject, predicate) ==
    LET FirstOf(objs) == IF objs = {} THEN None ELSE StoreOrder(objs)[1].v
    IN  FirstOf(Objects(graph, subject, predicate))

\* _get_object: the first object that is a URIRef
SSBD_get_object(graph, subject, predicate) ==
    LET FirstOf(refs) == IF refs = <<>> THEN None ELSE refs[1].v
    IN  FirstOf(SelectSeq(StoreOrder(Objects(graph, subject, predicate)), LAMBDA o : o.uri))

SsbdDataset == UriRef(<<"S", "S", "B", "D", "_", "d", "a", "t", "a", "s", "e", "t">>)
SsbdProject == UriRef(<<"S", "S", "B", "D", "_", "P", "r", "o", "j", "e", "c", "t">>)

\* _build_project_mappings that records no publication of a project
SSBDMappingsWithoutPublications(graph) ==
    LET Outputs(p) == {o.v : o \in Objects(graph, p, "has_dataset_output")}
        Of(projects) ==
            [_dataset_to_project |->
                [d \in UNION {Outputs(projects[i]) : i \in DOMAIN projects} |->
                    projects[CHOOSE i \in DOMAIN projects :
                                /\ d \in Outputs(projects[i])
                                /\ \A j \in DOMAIN projects :
                                      d \in Outputs(projects[j]) => j <= i]],
             _project_publications |->
                [p \in {projects[i] : i \in DOMAIN projects} |-> <<>>],
             _project_metadata |->
                [p \in {projects[i] : i \in DOMAIN projects} |->
                    [url |-> SSBD_get_literal(graph, p, "has_project_url"),
                     description |-> SSBD_get_literal(graph, p, "has_description"),
                     license |-> SSBD_get_literal(graph, p, "has_license"),
                     submission_date |-> SSBD_get_literal(graph, p, "has_submission_date")]]]
    IN  Of(StoreOrder(Subjects(graph, "rdf:type", SsbdProject)))

\* _build_project_mappings: a dataset listed by several projects keeps the
\* project visited last
SSBD_build_project_mappings(graph) ==
    LET Outputs(p) == {o.v : o \in Objects(graph, p, "has_dataset_output")}
        Of(projects) ==
            [_dataset_to_project |->
                [d \in UNION {Outputs(projects[i]) : i \in DOMAIN projects} |->
                    projects[CHOOSE i \in DOMAIN projects :
                                /\ d \in Outputs(projects[i])
                                /\ \A j \in DOMAIN projects :
                                      d \in Outputs(projects[j]) => j <= i]],
             _project_publications |->
                [p \in {projects[i] : i \in DOMAIN projects} |->
                    StoreOrder({o.v : o \in Objects(graph, p, "has_project_publications")})],
             _project_metadata |->
                [p \in {projects[i] : i \in DOMAIN projects} |->
                    [url |-> SSBD_get_literal(graph, p, "has_project_url"),
                     description |-> SSBD_get_literal(graph, p, "has_description"),
                     license |-> SSBD_get_literal(graph, p, "has_license"),
                     submission_date |-> SSBD_get_literal(graph, p, "has_submission_date")]]]
    IN  Of(StoreOrder(Subjects(graph, "rdf:type", SsbdProject)))

\* str(n) of an int n >= 0
RECURSIVE IntToStr(_)
IntToStr(n) ==
    IF n < 10 THEN <<DigitChars[n + 1]>>
    ELSE IntToStr(n \div 10) \o <<DigitChars[(n % 10) + 1]>>

NCBITaxonUnderscore == NCBITaxon \o <<"_">>

\* SSBDTransformer._extract_ncbi_taxon_id
SSBD_extract_ncbi_taxon_id(uri) ==
    IF Contains(uri, NCBITaxonUnderscore)
    THEN LET Taxon(r) == IF r.kind = "raise" THEN NoInt ELSE r.v
         IN  Taxon(PyInt(Last(Split(uri, NCBITaxonUnderscore))))
    ELSE NoInt

\* _parse_biosample: the organisms
SSBD_parse_biosample(graph, biosample_uri) ==
    LET Named(label, ncbi_id) ==
            <<Organism(Or(IF ~Truthy(label) /\ ncbi_id # NoInt /\ ncbi_id # 0
                          THEN NCBITaxon \o <<":">> \o IntToStr(ncbi_id)
                          ELSE label,
                          Unknown),
                       ncbi_id)>>
        Of(org_uri) ==
            IF Truthy(org_uri)
            THEN Named(SSBD_get_literal(graph, org_uri, "rdfs:label"),
                       SSBD_extract_ncbi_taxon_id(org_uri))
            ELSE <<Organism(Unknown, NoInt)>>
    IN  Of(SSBD_get_object(graph, biosample_uri, "is_about_organism"))

\* _parse_imaging_method: the methods
SSBD_parse_imaging_method(graph, imaging_uri) ==
    LET Named(label, fbbi_id) ==
            <<ImagingMethod(Or(IF ~Truthy(label) /\ Truthy(fbbi_id) THEN fbbi_id ELSE label,
                               Unknown),
                            fbbi_id)>>
        Of(method_uri) ==
            IF Truthy(method_uri)
            THEN Named(SSBD_get_literal(graph, method_uri, "rdfs:label"),
                       SSBD_extract_fbbi_id(method_uri))
            ELSE <<ImagingMethod(Unknown, None)>>
    IN  Of(SSBD_get_object(graph, imaging_uri, "has_imaging_method_recorded_type"))

YearAtAfterBlank(paper_info) ==
    LET FirstOf(hits) == IF hits = {} THEN 0 ELSE CHOOSE i \in hits : \A j \in hits : i <= j
    IN  FirstOf({i \in 3..(Len(paper_info) - 6) :
                    /\ paper_info[i - 1] = " "
                    /\ paper_info[i] = "(" /\ paper_info[i + 5] = ")"
                    /\ \A k \in 1..4 : IsDigit(paper_info[i + k])})

\* re.match(r"^(.+?)\s*\((\d{4})\)\s*(.+)$", paper_info, re.DOTALL): the index
\* of the "(" of the first "(dddd)" with text before it and after it, or 0
YearAt(paper_info) ==
    LET FirstOf(hits) == IF hits = {} THEN 0 ELSE CHOOSE i \in hits : \A j \in hits : i <= j
    IN  FirstOf({i \in 2..(Len(paper_info) - 6) :
                    /\ paper_info[i] = "(" /\ paper_info[i + 5] = ")"
                    /\ \A k \in 1..4 : IsDigit(paper_info[i + k])})

\* _parse_paper: every paper gives a Publication
SSBD_parse_paper(graph, paper_uri) ==
    LET Matched(paper_info, at) ==
            Publication(SSBD_get_literal(graph, paper_uri, "has_doi"),
                        SSBD_get_literal(graph, paper_uri, "has_PMID"),
                        None,
                        IF at = 0 THEN paper_info
                        ELSE Strip(Split(Strip(SubSeq(paper_info, at + 6, Len(paper_info))),
                                         <<",">>)[1]),
                        IF at = 0 THEN None ELSE Strip(SubSeq(paper_info, 1, at - 1)),
                        IF at = 0 THEN NoInt
                        ELSE DigitsValue(SubSeq(paper_info, at + 1, at + 4)))
        Of(paper_info) ==
            Matched(paper_info, IF Truthy(paper_info) THEN YearAt(paper_info) ELSE 0)
    IN  Of(SSBD_get_literal(graph, paper_uri, "has_paper_information"))

\* _get_dataset_id
SSBD_get_dataset_id(dataset_uri) ==
    IF Contains(dataset_uri, <<"s", "s", "b", "d", "-", "d", "a", "t", "a", "s", "e", "t", "-">>)
    THEN Last(Split(dataset_uri, <<"/">>))
    ELSE dataset_uri

\* _get_project_metadata reading the first project that lists the dataset
SSBDMetadataOfFirstProject(self, dataset_uri) ==
    LET Of(listing) ==
            IF listing = <<>> THEN [k \in {} |-> None]
            ELSE self._project_metadata[listing[1]]
    IN  Of(SelectSeq(StoreOrder(Subjects(self.graph, "rdf:type", SsbdProject)),
                     LAMBDA p : dataset_uri \in
                        {o.v : o \in Objects(self.graph, p, "has_dataset_output")}))

\* _get_project_metadata: {} for a dataset without a project
SSBD_get_project_metadata(self, dataset_uri) ==
    IF dataset_uri \notin DOMAIN self._dataset_to_project THEN [k \in {} |-> None]
    ELSE self._project_metadata[self._dataset_to_project[dataset_uri]]

\* project_meta.get("url") or the repository page of the dataset
SSBD_source_url(project_meta, dataset_id) ==
    Or(Get(project_meta, "url"),
       <<"h", "t", "t", "p", "s", ":", "/", "/", "s", "s", "b", "d", ".", "r", "i", "k",
         "e", "n", ".", "j", "p", "/", "r", "e", "p", "o", "s", "i", "t", "o", "r", "y", "/">>
           \o dataset_id \o <<"/">>)

\* the id, source, title, description and license of transform_dataset
SSBDDescribed(self, dataset_uri) ==
    LET Titled(dataset_id, title) ==
            Described(<<"s", "s", "b", "d", ":">> \o dataset_id, SourceSSBD, title,
                      Or(IF dataset_uri \in DOMAIN self._dataset_to_project
                         THEN self._project_metadata[
                                  self._dataset_to_project[dataset_uri]].description
                         ELSE None,
                         title),
                      <<"C", "C", " ", "B", "Y", " ", "4", ".", "0">>)
        Of(dataset_id, title) ==
            Titled(dataset_id,
                   IF Truthy(title) THEN title
                   ELSE Or(SSBD_get_literal(self.graph, dataset_uri, "rdfs:label"),
                           dataset_id))
    IN  Of(SSBD_get_dataset_id(dataset_uri),
           SSBD_get_literal(self.graph, dataset_uri, "has_dataset_title"))

\* transform_dataset on the instance self: always a Study, unless date()
\* raises what the try block does not catch
SSBD_transform_dataset(self, dataset_uri) ==
    LET Record(biosample_uri, imaging_uri, pub_uris, release_date) ==
            IF release_date.kind = "raise" THEN release_date
            ELSE Study("SSBD", SSBDDescribed(self, dataset_uri), release_date,
                       IF Truthy(biosample_uri)
                       THEN SSBD_parse_biosample(self.graph, biosample_uri)
                       ELSE <<Organism(Unknown, NoInt)>>,
                       IF Truthy(imaging_uri)
                       THEN SSBD_parse_imaging_method(self.graph, imaging_uri)
                       ELSE <<ImagingMethod(Unknown, None)>>,
                       [i \in DOMAIN pub_uris |-> SSBD_parse_paper(self.graph, pub_uris[i])],
                       <<>>)
        Of(pub_uris, submission_date) ==
            Record(SSBD_get_object(self.graph, dataset_uri, "has_biosample_information"),
                   SSBD_get_object(self.graph, dataset_uri, "has_imaging_method_total_info"),
                   pub_uris, SSBD_release_date(submission_date))
        InProject(project_uri) ==
            Of(self._project_publications[project_uri],
               self._project_metadata[project_uri].submission_date)
    IN  IF dataset_uri \in DOMAIN self._dataset_to_project
        THEN InProject(self._dataset_to_project[dataset_uri])
        ELSE Of(<<>>, None)

\* transform_all over the subjects typed SSBD_dataset, in store order: one
\* transform_dataset each; the first exception leaves the loop
RECURSIVE SSBDStudies(_, _)
SSBDStudies(self, uris) ==
    IF uris = <<>> THEN [kind |-> "studies", studies |-> <<>>]
    ELSE LET Cons(study, rest) ==
                IF study.kind = "raise" THEN study
                ELSE IF rest.kind = "raise" THEN rest
                ELSE [kind |-> "studies", studies |-> <<study>> \o rest.studies]
         IN  Cons(SSBD_transform_dataset(self, Head(uris)), SSBDStudies(self, Tail(uris)))

\* transform_all
SSBD_transform_all(self) ==
    SSBDStudies(self, StoreOrder(Subjects(self.graph, "rdf:type", SsbdDataset)))

-----------------------------------------------------------------------------
(* IDRTransformer. The mapping _parse_study_file returns is a function from *)
(* the keys (str) to a str or a list of two or more str; a field without   *)
(* values is absent.                                                       *)

\* the str a key literal of idr.py denotes
Key(name) ==
    CASE name = "Comment[IDR Study Accession]" ->
              <<"C", "o", "m", "m", "e", "n", "t", "[", "I", "D", "R", " ",
                 "S", "t", "u", "d", "y", " ", "A", "c", "c", "e", "s", "s",
                 "i", "o", "n", "]">>
      [] name = "Study Organism" ->
              <<"S", "t", "u", "d", "y", " ", "O", "r", "g", "a", "n", "i",
                 "s", "m">>
      [] name = "Study Organism Term Accession" ->
              <<"S", "t", "u", "d", "y", " ", "O", "r", "g", "a", "n", "i",
                 "s", "m", " ", "T", "e", "r", "m", " ", "A", "c", "c", "e",
                 "s", "s", "i", "o", "n">>
      [] name = "Screen Imaging Method" ->
              <<"S", "c", "r", "e", "e", "n", " ", "I", "m", "a", "g", "i",
                 "n", "g", " ", "M", "e", "t", "h", "o", "d">>
      [] name = "Screen Imaging Method Term Accession" ->
              <<"S", "c", "r", "e", "e", "n", " ", "I", "m", "a", "g", "i",
                 "n", "g", " ", "M", "e", "t", "h", "o", "d", " ", "T", "e",
                 "r", "m", " ", "A", "c", "c", "e", "s", "s", "i", "o", "n">>
      [] name = "Study Title" ->
              <<"S", "t", "u", "d", "y", " ", "T", "i", "t", "l", "e">>
      [] name = "Study Description" ->
              <<"S", "t", "u", "d", "y", " ", "D", "e", "s", "c", "r", "i",
                 "p", "t", "i", "o", "n">>
      [] name = "Study License" ->
              <<"S", "t", "u", "d", "y", " ", "L", "i", "c", "e", "n", "s",
                 "e">>
      [] name = "Study Public Release Date" ->
              <<"S", "t", "u", "d", "y", " ", "P", "u", "b", "l", "i", "c",
                 " ", "R", "e", "l", "e", "a", "s", "e", " ", "D", "a", "t",
                 "e">>
      [] name = "Study PubMed ID" ->
              <<"S", "t", "u", "d", "y", " ", "P", "u", "b", "M", "e", "d",
                 " ", "I", "D">>
      [] name = "Study DOI" ->
              <<"S", "t", "u", "d", "y", " ", "D", "O", "I">>
      [] name = "Study Publication Title" ->
              <<"S", "t", "u", "d", "y", " ", "P", "u", "b", "l", "i", "c",
                 "a", "t", "i", "o", "n", " ", "T", "i", "t", "l", "e">>

\* data.get(key, default) followed by "if isinstance(v, list): v = v[0]"
IDRFirst(data, key, default) ==
    IF Key(key) \notin DOMAIN data THEN default
    ELSE IF data[Key(key)].t = "list" THEN data[Key(key)].items[1]
    ELSE data[Key(key)].s

\* data.get(key, []) followed by "if isinstance(v, str): v = [v]"
IDRList(data, key) ==
    IF Key(key) \notin DOMAIN data THEN <<>>
    ELSE IF data[Key(key)].t = "list" THEN data[Key(key)].items
    ELSE <<data[Key(key)].s>>

\* IDRTransformer._extract_ncbi_taxon_id
IDR_extract_ncbi_taxon_id(accession) ==
    IF accession = None \/ accession = <<>> THEN NoInt
    ELSE LET Taxon(g) == IF g = None THEN NoInt ELSE DigitsValue(g)
         IN  Taxon(ReSearch([lit |-> NCBITaxonUnderscore, cls |-> {}], accession, FALSE))

Max3(a, b, c) == IF a >= b /\ a >= c THEN a ELSE IF b >= c THEN b ELSE c

\* "if pub.pubmed_id or pub.doi or pub.title"
PublicationKept(pub) == Truthy(pub.pubmed_id) \/ Truthy(pub.doi) \/ Truthy(pub.title)

\* IDRTransformer._parse_publications
IDR_parse_publications(data) ==
    LET pmids == IDRList(data, "Study PubMed ID")
        dois == IDRList(data, "Study DOI")
        titles == IDRList(data, "Study Publication Title")
        max_len == Max3(Max3(Len(pmids), Len(dois), Len(titles)), 1, 1)
        At(list, i) == IF i <= Len(list) THEN list[i] ELSE None
    IN  SelectSeq([i \in 1..max_len |->
                     Publication(At(dois, i), At(pmids, i), None, At(titles, i), None, NoInt)],
                  PublicationKept)

\* _parse_study_file with a repeated key replacing what was read before
RECURSIVE IDRParseOverwriting(_, _)
IDRParseOverwriting(rows, data) ==
    LET Put(key, values) ==
            [k \in {key} |->
                IF Len(values) = 1 THEN PyStr(values[1]) ELSE PyList(values)] @@ data
        Row(key, values) ==
            IF key = <<>> \/ values = <<>> THEN data ELSE Put(key, values)
        Read(row) ==
            IF \/ row = <<>>
               \/ StartsWith(row[1], <<"#">>)
               \/ StartsWith(row[1], <<"\"", "#">>)
            THEN data
            ELSE Row(Strip(row[1]),
                     SelectSeq([i \in 1..(Len(row) - 1) |-> Strip(row[i + 1])],
                               LAMBDA v : v # <<>>))
    IN  IF rows = <<>> THEN data
        ELSE IDRParseOverwriting(Tail(rows), Read(Head(rows)))

RECURSIVE IDRParseKeepingComments(_, _)
IDRParseKeepingComments(rows, data) ==
    LET Put(key, values) ==
            IF key \in DOMAIN data
            THEN [data EXCEPT ![key] =
                    PyList((IF @.t = "list" THEN @.items ELSE <<@.s>>) \o values)]
            ELSE [k \in {key} |->
                    IF Len(values) = 1 THEN PyStr(values[1]) ELSE PyList(values)] @@ data
        Row(key, values) ==
            IF key = <<>> \/ values = <<>> THEN data ELSE Put(key, values)
        Read(row) ==
            IF row = <<>> THEN data
            ELSE Row(Strip(row[1]),
                     SelectSeq([i \in 1..(Len(row) - 1) |-> Strip(row[i + 1])],
                               LAMBDA v : v # <<>>))
    IN  IF rows = <<>> THEN data
        ELSE IDRParseKeepingComments(Tail(rows), Read(Head(rows)))

\* _parse_study_file on the rows csv.reader yields, each a list of cells: data
\* holds the mapping built from the rows already read
RECURSIVE IDR_parse_study_file(_, _)
IDR_parse_study_file(rows, data) ==
    LET Put(key, values) ==
            IF key \in DOMAIN data
            THEN [data EXCEPT ![key] =
                    PyList((IF @.t = "list" THEN @.items ELSE <<@.s>>) \o values)]
            ELSE [k \in {key} |->
                    IF Len(values) = 1 THEN PyStr(values[1]) ELSE PyList(values)] @@ data
        Row(key, values) ==
            IF key = <<>> \/ values = <<>> THEN data ELSE Put(key, values)
        Read(row) ==
            IF \/ row = <<>>
               \/ StartsWith(row[1], <<"#">>)
               \/ StartsWith(row[1], <<"\"", "#">>)
            THEN data
            ELSE Row(Strip(row[1]),
                     SelectSeq([i \in 1..(Len(row) - 1) |-> Strip(row[i + 1])],
                               LAMBDA v : v # <<>>))
    IN  IF rows = <<>> THEN data
        ELSE IDR_parse_study_file(Tail(rows), Read(Head(rows)))

\* Path.stem: the name without its last suffix
Stem(name) ==
    LET Cut(p) == IF p >= 2 /\ p < Len(name) THEN SubSeq(name, 1, p - 1) ELSE name
        dots == {i \in DOMAIN name : name[i] = "."}
    IN  IF dots = {} THEN name ELSE Cut(CHOOSE i \in dots : \A j \in dots : j <= i)

\* the id, source, title, description and license of transform_study
IDRDescribed(data, name) ==
    LET Titled(study_id, title) ==
            Described(<<"i", "d", "r", ":">> \o study_id, SourceIDR, title,
                      IDRFirst(data, "Study Description", title),
                      IDRFirst(data, "Study License", Unknown))
        Of(study_id) == Titled(study_id, IDRFirst(data, "Study Title", study_id))
        FromName(g) == Of(IF g # None THEN <<"i", "d", "r">> \o g ELSE Stem(name))
        Accession(study_id) ==
            IF Truthy(study_id) THEN Of(study_id)
            ELSE FromName(ReSearch([lit |-> <<"i", "d", "r">>, cls |-> {}], name, FALSE))
    IN  Accession(IDRFirst(data, "Comment[IDR Study Accession]", <<>>))

\* IDRTransformer.transform_study: None for a file without content rows
IDR_transform_study(study_file) ==
    LET Record(data, release_date) ==
            IF release_date.kind = "raise" THEN release_date
            ELSE Study("IDR", IDRDescribed(data, study_file.name), release_date,
                   <<Organism(IDRFirst(data, "Study Organism", Unknown),
                              IDR_extract_ncbi_taxon_id(
                                  IDRFirst(data, "Study Organism Term Accession", <<>>)))>>,
                   <<ImagingMethod(IDRFirst(data, "Screen Imaging Method", Unknown),
                                   IDR_extract_fbbi_id(
                                       IDRFirst(data, "Screen Imaging Method Term Accession",
                                                <<>>)))>>,
                   IDR_parse_publications(data),
                   <<>>)
        Of(data) ==
            IF DOMAIN data = {} THEN NoStudy
            ELSE Record(data,
                        IDR_parse_date(PyStr(IDRFirst(data, "Study Public Release Date",
                                                      <<>>))))
    IN  Of(IDR_parse_study_file(study_file.rows, [k \in {} |-> PyNone]))

\* IDRTransformer.transform_all over the files find_study_files lists: the
\* studies that are not None; the first exception leaves the loop
RECURSIVE IDR_transform_all(_)
IDR_transform_all(study_files) ==
    IF study_files = <<>> THEN [kind |-> "studies", studies |-> <<>>]
    ELSE LET Cons(study, rest) ==
                IF study.kind = "raise" THEN study
                ELSE IF rest.kind = "raise" THEN rest
                ELSE [kind |-> "studies",
                      studies |-> (IF study.kind = "none" THEN <<>> ELSE <<study>>)
                                      \o rest.studies]
         IN  Cons(IDR_transform_study(Head(study_files)),
                  IDR_transform_all(Tail(study_files)))

-----------------------------------------------------------------------------
(* BIATransformer: its methods on the lists of one hit of the search API,   *)
(* and transform_hit on hit["_source"]. A method that returns a list       *)
(* returns [kind |-> "list", items |-> the list].                          *)

Returned(items) == [kind |-> "list", items |-> items]

\* _parse_funding
BIA_parse_funding(grant_list) ==
    SelectSeq([i \in DOMAIN grant_list |->
                 Funding(IF GetRefs(grant_list[i], "funder") # <<>>
                         THEN (IF "display_name" \in DOMAIN grant_list[i].funder[1]
                               THEN grant_list[i].funder[1].display_name ELSE Unknown)
                         ELSE Unknown,
                         Get(grant_list[i], "id"))],
              LAMBDA f : Truthy(f.grant_id))

\* BIATransformer._parse_publications
BIA_parse_publications(pub_list) ==
    SelectSeq([i \in DOMAIN pub_list |->
                 Publication(Get(pub_list[i], "doi"), Get(pub_list[i], "pubmed_id"), None,
                             Get(pub_list[i], "title"), None, NoInt)],
              PublicationKept)

\* _extract_organisms: the first Organism it builds, for the first
\* classification or else for the fallback, is Organism(name=...); the model
\* class requires scientific_name and has no field "name", so the
\* constructor raises ValidationError on every path
BIA_extract_organisms(datasets) == Raised("ValidationError")

\* the loop of _extract_imaging_methods over the names of one process
RECURSIVE BIAMethods(_, _, _, _)
BIAMethods(method_names, fbbi_ids, i, acc) ==
    IF i > Len(method_names) THEN acc
    ELSE LET name == method_names[i]
             fbbi_id == IF i <= Len(fbbi_ids) THEN fbbi_ids[i] ELSE None
         IN  BIAMethods(method_names, fbbi_ids, i + 1,
                IF Truthy(name) /\ name \notin acc.seen
                THEN [methods |-> Append(acc.methods,
                                         ImagingMethod(name, BIA_format_fbbi_id(fbbi_id))),
                      seen |-> acc.seen \cup {name}]
                ELSE acc)

RECURSIVE BIAProcesses(_, _)
BIAProcesses(processes, acc) ==
    IF processes = <<>> THEN acc
    ELSE BIAProcesses(Tail(processes),
                      BIAMethods(GetRefs(Head(processes), "imaging_method_name"),
                                 GetRefs(Head(processes), "fbbi_id"), 1, acc))

\* _extract_imaging_methods
BIA_extract_imaging_methods(datasets) ==
    LET OrUnknown(methods) ==
            IF methods = <<>> THEN <<ImagingMethod(Unknown, None)>> ELSE methods
    IN  OrUnknown(BIAProcesses(Concat([i \in DOMAIN datasets |->
                                         GetRefs(datasets[i], "acquisition_process")]),
                               [methods |-> <<>>, seen |-> {}]).methods)

\* BIATransformer._extract_sample_type: the entities of all datasets in
\* order; the first one whose text names a type decides
RECURSIVE BIASampleTypeOf(_)
BIASampleTypeOf(entities) ==
    LET Of(text) ==
            IF Contains(text, <<"t", "i", "s", "s", "u", "e">>) THEN "tissue"
            ELSE IF Contains(text, <<"c", "e", "l", "l">>) THEN "cell"
            ELSE IF Contains(text, <<"o", "r", "g", "a", "n", "i", "s", "m">>) THEN "organism"
            ELSE BIASampleTypeOf(Tail(entities))
        GetOr(be, key) == IF key \in DOMAIN be THEN be[key] ELSE <<>>
    IN  IF entities = <<>> THEN "unknown"
        ELSE Of(Lower(GetOr(Head(entities), "biological_entity_description")
                          \o <<" ">> \o GetOr(Head(entities), "title")))

BIA_extract_sample_type(datasets) ==
    BIASampleTypeOf(Concat([i \in DOMAIN datasets |->
                              GetRefs(datasets[i], "biological_entity")]))

\* transform_hit on hit["_source"]: None without an accession_id; with one,
\* the exception of _parse_date or else that of _extract_organisms
BIA_transform_hit(source) ==
    LET Dated(release_date) ==
            IF release_date.kind = "raise" THEN release_date
            ELSE BIA_extract_organisms(GetRefs(source, "dataset"))
    IN  IF ~Truthy(Get(source, "accession_id")) THEN NoStudy
        ELSE Dated(BIA_parse_date(IF "release_date" \in DOMAIN source
                                  THEN source.release_date ELSE PyNone))

-----------------------------------------------------------------------------
(* The documents the adapters are applied to *)

MaxRefs == 2

Hs == <<"H", "s">>
Mm == <<"M", "m">>
Cf == <<"c", "f">>
Em == <<"e", "m">>
Wt == <<"W", "T">>
G1 == <<"G", "1">>
IsoDay == <<"2", "0", "2", "4", "-", "0", "2", "-", "1", "5">>
WideDay == <<"2", "1", "4", "7", "4", "8", "3", "6", "4", "8", "-", "0", "1", "-", "0", "1">>
Ref(name) == <<"#">> \o name

\* sequences of at most MaxRefs members of S
SeqsOf(S) == UNION {[1..n -> S] : n \in 0..MaxRefs}

DateSamples == {PyNone, PyStr(IsoDay), PyStr(<<"x">>), PyList(<<IsoDay>>), PyStr(WideDay)}

Taxa ==
    << [id |-> Ref(<<"t", "1">>), scientificName |-> Hs],
       [id |-> Ref(<<"t", "2">>), name |-> Hs],
       [id |-> NCBITaxon \o <<":", "1", "0">>, scientificName |-> Mm] >>

\* resolved taxa, and references that resolve to nothing
OrganismRefs ==
    {Taxa[i].id : i \in DOMAIN Taxa}
        \cup {NCBITaxon \o <<":", "9">>, Lower(NCBITaxon) \o <<":", "9">>, Ref(<<"g", "o", "n", "e">>)}

PublicationNodes ==
    << [id |-> Ref(<<"p", "0">>)],
       [id |-> Ref(<<"p", "1">>), doi |-> <<"1", "0", ".", "1">>],
       [id |-> Ref(<<"p", "2">>), identifier |-> <<"d", "o", "i", ":", "x">>],
       [id |-> Ref(<<"p", "3">>), title |-> <<"T">>,
        datePublished |-> <<"2", "0", "2", "0", "-", "0", "1">>] >>

GrantNodes ==
    << [id |-> Ref(<<"g", "1">>), name |-> Wt, identifier |-> G1],
       [id |-> Ref(<<"g", "2">>), identifier |-> G1],
       [id |-> Ref(<<"g", "3">>), name |-> Wt],
       [id |-> <<"g", "/">>, name |-> Wt] >>

TechniqueNode == [id |-> Ref(<<"t", "e">>), name |-> Cf, url |-> OboPrefix \o FBbiUnderscore \o <<"9">>]

\* a crate: the root, one nested dataset with one BioSample and one protocol,
\* and the nodes the root may refer to
Crate(root, org_refs, method_names, fbbi_ids) ==
    << root,
       [id |-> Ref(<<"d", "s">>),
        associatedBiologicalEntity |-> <<Ref(<<"b", "s">>)>>,
        associatedImageAcquisitionProtocol |-> <<Ref(<<"i", "a", "p">>)>>],
       [id |-> Ref(<<"b", "s">>), type |-> <<<<"b", "i", "a", ":">> \o BioSampleWord>>,
        organismClassification |-> org_refs],
       [id |-> Ref(<<"i", "a", "p">>), imagingMethodName |-> method_names, fbbiId |-> fbbi_ids],
       TechniqueNode >>
        \o Taxa \o PublicationNodes \o GrantNodes

Root(id, datePublished, about, measurementTechnique, citation, relatedPublication, funder) ==
    [id |-> id, type |-> <<DatasetType>>, datePublished |-> datePublished,
     hasPart |-> <<Ref(<<"d", "s">>)>>, about |-> about,
     measurementTechnique |-> measurementTechnique, citation |-> citation,
     relatedPublication |-> relatedPublication, funder |-> funder]

PlainRoot == Root(RootId, PyStr(IsoDay), <<>>, <<>>, <<>>, <<>>, <<>>)

NodeRefs(nodes) == {nodes[i].id : i \in DOMAIN nodes} \cup {Ref(<<"g", "o", "n", "e">>)}

Crates ==
    {Crate(Root(RootId, d, <<>>, <<>>, <<>>, <<>>, <<>>), <<>>, <<>>, <<>>) : d \in DateSamples}
    \cup {Crate(Root(RootId, PyNone, about, <<>>, <<>>, <<>>, <<>>), org_refs, <<>>, <<>>) :
            about \in {<<>>, <<Ref(<<"b", "s">>)>>}, org_refs \in SeqsOf(OrganismRefs)}
    \cup {Crate(Root(RootId, PyNone, <<>>, technique, <<>>, <<>>, <<>>), <<>>, names, fbbi_ids) :
            technique \in {<<>>, <<TechniqueNode.id>>},
            names \in {<<>>, <<Cf>>, <<Cf, Cf>>, <<Cf, Em>>, <<<<>>, Em>>},
            fbbi_ids \in {<<>>, <<OboPurl \o FBbiUnderscore \o <<"0", "2">>>>,
                          <<FBbiColon \o <<"2">>, <<"x">>>>}}
    \cup {Crate(Root(RootId, PyNone, <<>>, <<>>, refs, <<>>, <<>>), <<>>, <<>>, <<>>) :
            refs \in SeqsOf(NodeRefs(PublicationNodes))}
    \cup {Crate(Root(RootId, PyNone, <<>>, <<>>, <<>>, refs, <<>>), <<>>, <<>>, <<>>) :
            refs \in SeqsOf(NodeRefs(PublicationNodes))}
    \cup {Crate(Root(RootId, PyNone, <<>>, <<>>, <<>>, <<>>, refs), <<>>, <<>>, <<>>) :
            refs \in SeqsOf(NodeRefs(GrantNodes))}
    \cup {Crate(Root(Ref(<<"r">>), PyNone, <<>>, <<>>, <<>>, <<>>, <<>>), <<>>, <<>>, <<>>),
          <<[id |-> DescriptorId, about |-> Ref(<<"r">>)]>>
             \o Crate(Root(Ref(<<"r">>), PyNone, <<>>, <<>>, <<>>, <<>>, <<>>), <<>>, <<>>, <<>>)}

\* a dict without keys
Absent == [k \in {} |-> PyNone]

PublisherNodes ==
    << [id |-> Ref(<<"o", "1">>), name |-> <<"I", "m", "a", "g", "e", " ", "D", "a", "t", "a", " ", "R", "e", "s", "o", "u", "r", "c", "e">>],
       [id |-> Ref(<<"o", "2">>), name |-> <<"E", "M", "B", "L">>, url |-> <<"h", "t", "t", "p", "s", ":", "/", "/", "w", "w", "w", ".", "E", "B", "I", ".", "a", "c", ".", "u", "k">>],
       [id |-> Ref(<<"o", "3">>), name |-> <<"Z", "e", "n", "o", "d", "o">>],
       [id |-> <<"h", "t", "t", "p", "s", ":", "/", "/", "s", "s", "b", "d", ".", "r", "i", "k", "e", "n", ".", "j", "p">>] >>

Idr1 == <<"i", "d", "r", "1">>
SBiad1 == <<"S", "-", "B", "I", "A", "D", "1">>

\* a key of a JSON object: absent, or present with one of the values
Keyed(key, values) == {Absent} \cup {[k \in {key} |-> v] : v \in values}

\* crates whose root varies in what the source is read from ...
SourceCrates ==
    {Crate(a @@ i @@ u @@ pb @@ PlainRoot, <<>>, <<>>, <<>>) \o PublisherNodes :
        a \in Keyed("accessionId", {Idr1, Upper(Idr1), SBiad1, <<"E", "M", "P", "I", "A", "R", "-", "1">>, <<"S", "S", "B", "D", "-", "1">>, <<"u", "n", "k", "n", "o", "w", "n", "-", "i", "d">>}),
        i \in Keyed("identifier", {Lower(SBiad1)}),
        u \in Keyed("url", {<<"h", "t", "t", "p", "s", ":", "/", "/", "h", "/", "i", "d", "r", "9", "/">>}),
        pb \in Keyed("publisher", NodeRefs(PublisherNodes))}

\* ... and in its title, description and license, null and "" included
TextCrates ==
    {Crate(t @@ n @@ d @@ l1 @@ l2 @@ i @@ [accessionId |-> Idr1] @@ PlainRoot,
           <<>>, <<>>, <<>>) :
        t \in Keyed("title", {<<"T">>, <<>>}),
        n \in Keyed("name", {<<"N">>}),
        d \in Keyed("description", {<<"D">>, <<>>, None}),
        l1 \in Keyed("licence", {<<"L">>, None}),
        l2 \in Keyed("license", {<<"M">>, <<>>}),
        i \in Keyed("identifier", {None})}

\* the crates of a directory: two with one accession, one of another
\* source, one without an accession, one without a root, one whose date
\* is beyond a C int
DirectoryCrates ==
    {Crate([accessionId |-> Idr1] @@ PlainRoot, <<>>, <<>>, <<>>),
     Crate([accessionId |-> Idr1, title |-> <<"T">>] @@ PlainRoot, <<>>, <<>>, <<>>),
     Crate([accessionId |-> SBiad1] @@ PlainRoot, <<>>, <<>>, <<>>),
     Crate(PlainRoot, <<>>, <<>>, <<>>),
     Crate([accessionId |-> Idr1] @@ Root(Ref(<<"r">>), PyNone, <<>>, <<>>, <<>>, <<>>, <<>>),
           <<>>, <<>>, <<>>),
     Crate([accessionId |-> SBiad1] @@ Root(RootId, PyStr(WideDay), <<>>, <<>>, <<>>, <<>>, <<>>),
           <<>>, <<>>, <<>>)}

\* graphs that vary in how the root is found: a descriptor about "./", about
\* "#r" or about a node that is not there, a node "./" typed Dataset,
\* bia:Study or Thing, and a node "#r"
RootedCrates ==
    {descriptor \o dot \o other :
        descriptor \in {<<>>} \cup {<<[id |-> DescriptorId, about |-> a]>> :
                                     a \in {RootId, Ref(<<"r">>), Ref(<<"g", "o", "n", "e">>)}},
        dot \in {<<>>} \cup {<<[type |-> <<t>>, accessionId |-> Idr1] @@ PlainRoot>> :
                              t \in {DatasetType, BiaStudyType, <<"T", "h", "i", "n", "g">>}},
        other \in {<<>>, <<[id |-> Ref(<<"r">>), accessionId |-> SBiad1]>>}}

MaxBatch == 2

\* directories of at most MaxBatch documents
BatchesOf(S) == UNION {[1..n -> S] : n \in 0..MaxBatch}

Ds1 == <<"d", "s", "1">>
Ds2 == <<"d", "s", "2">>
Pr1 == <<"p", "r", "1">>
Bs1 == <<"b", "s", "1">>
Im1 == <<"i", "m", "1">>
Paper1 == <<"p", "a", "1">>
Paper2 == <<"p", "a", "2">>
TaxonUri == OboPurl \o NCBITaxonUnderscore \o <<"9">>

\* the triples of dataset Ds1 about its biosample
BiosampleTriples ==
    { {},
      {<<Ds1, "has_biosample_information", UriRef(Bs1)>>},
      {<<Ds1, "has_biosample_information", UriRef(Bs1)>>,
       <<Bs1, "is_about_organism", UriRef(TaxonUri)>>},
      {<<Ds1, "has_biosample_information", UriRef(Bs1)>>,
       <<Bs1, "is_about_organism", UriRef(TaxonUri)>>,
       <<TaxonUri, "rdfs:label", Literal(Hs)>>},
      {<<Ds1, "has_biosample_information", Literal(Hs)>>} }

\* the triples of dataset Ds1 about its imaging method
ImagingTriples ==
    { {},
      {<<Ds1, "has_imaging_method_total_info", UriRef(Im1)>>} }
    \cup { {<<Ds1, "has_imaging_method_total_info", UriRef(Im1)>>,
            <<Im1, "has_imaging_method_recorded_type", UriRef(u)>>} :
            u \in {OboPurl \o FBbiUnderscore \o <<"0", "2">>,
                   OboPurl \o FBbiUnderscore \o <<"0", "2", "#", "x">>,
                   OboPurl \o FBbiUnderscore,
                   OboPurl \o <<"G", "O", "_", "2">>} }

\* the triples of project Pr1: its datasets, its date and its papers
ProjectTriples ==
    { {<<Pr1, "rdf:type", SsbdProject>>} \cup outputs \cup date \cup papers :
        outputs \in SUBSET {<<Pr1, "has_dataset_output", UriRef(Ds1)>>,
                            <<Pr1, "has_dataset_output", UriRef(Ds2)>>},
        date \in { {} } \cup { {<<Pr1, "has_submission_date", Literal(d)>>} :
                                d \in {IsoDay, <<"x">>, WideDay} },
        papers \in SUBSET {<<Pr1, "has_project_publications", UriRef(Paper1)>>,
                           <<Pr1, "has_project_publications", UriRef(Paper2)>>} }

PaperTriples ==
    {<<Paper1, "has_doi", Literal(<<"1", "0", ".", "1">>)>>,
     <<Paper1, "has_paper_information",
       Literal(<<"A", " ", "(", "2", "0", "2", "0", ")", " ", "T", ",", " ", "J">>)>>}

\* which of Ds1 and Ds2 are typed SSBD_dataset
TypeTriples == SUBSET {<<Ds1, "rdf:type", SsbdDataset>>, <<Ds2, "rdf:type", SsbdDataset>>}

\* two datasets whose uris end in the same segment
Ds3 == <<"h", "t", "t", "p", ":", "/", "/", "a", "/", "s", "s", "b", "d", "-", "d", "a", "t", "a", "s", "e", "t", "-", "1">>
Ds4 == <<"h", "t", "t", "p", ":", "/", "/", "b", "/", "s", "s", "b", "d", "-", "d", "a", "t", "a", "s", "e", "t", "-", "1">>

\* graphs of Ds3 and Ds4: the title and the label of Ds3, and the project
\* that describes it
TitledGraphs ==
    {types \cup titles \cup proj :
        types \in SUBSET {<<Ds3, "rdf:type", SsbdDataset>>, <<Ds4, "rdf:type", SsbdDataset>>},
        titles \in SUBSET {<<Ds3, "has_dataset_title", Literal(<<"T">>)>>,
                           <<Ds3, "has_dataset_title", Literal(<<>>)>>,
                           <<Ds3, "rdfs:label", Literal(<<"N">>)>>},
        proj \in { {} } \cup
                 { {<<Pr1, "rdf:type", SsbdProject>>,
                    <<Pr1, "has_dataset_output", UriRef(Ds3)>>} \cup description :
                    description \in { {}, {<<Pr1, "has_description", Literal(<<"D">>)>>},
                                     {<<Pr1, "has_description", Literal(<<>>)>>} } }}

\* the parts of a citation "<authors> (<year>) <title>, <rest>"
CitationParts ==
    [authors : {<<"A">>, <<"A", ",", " ", "B">>},
     gap : {<<>>, <<" ">>},
     year : {<<"2", "0", "2", "0">>, <<"0", "0", "0", "1">>},
     title : {<<"T">>, <<"T", " ", "U">>},
     rest : {<<>>, <<",", " ", "J">>, <<",", "J", ",", " ", "1">>}]

Citation(c) ==
    c.authors \o c.gap \o <<"(">> \o c.year \o <<")", " ">> \o c.title \o c.rest

\* citations of that form, and texts that are not of it
Citations ==
    {Citation(c) : c \in CitationParts}
    \cup {<<>>, <<"T">>, <<"(", "2", "0", "2", "0", ")", " ", "T">>,
          <<"A", " ", "(", "2", "0", "2", "0", ")">>,
          <<"A", " ", "(", "2", "0", ")", " ", "T">>,
          <<"A", " ", "(", "2", "0", "2", "0", "1", ")", " ", "T">>,
          <<"A", " ", "2", "0", "2", "0", " ", "T">>}

\* graphs of one project whose paper Paper2 carries a citation
CitedGraphs ==
    {{<<Ds1, "rdf:type", SsbdDataset>>, <<Pr1, "rdf:type", SsbdProject>>,
      <<Pr1, "has_dataset_output", UriRef(Ds1)>>,
      <<Pr1, "has_project_publications", UriRef(Paper2)>>,
      <<Paper2, "has_paper_information", Literal(c)>>} : c \in Citations}

Pr2 == <<"p", "r", "2">>
OtherDay == <<"2", "0", "2", "3", "-", "0", "1", "-", "0", "2">>
Url1 == <<"h", "t", "t", "p", "s", ":", "/", "/", "u", "/", "1">>
Url2 == <<"h", "t", "t", "p", "s", ":", "/", "/", "u", "/", "2">>

\* graphs of two projects with their own paper, url, description and date:
\* each may list Ds1 and Ds2, the second may lack url, description and date
TwoProjectGraphs ==
    {{<<Ds1, "rdf:type", SsbdDataset>>, <<Ds2, "rdf:type", SsbdDataset>>,
      <<Pr1, "rdf:type", SsbdProject>>, <<Pr2, "rdf:type", SsbdProject>>,
      <<Pr1, "has_project_publications", UriRef(Paper1)>>,
      <<Pr2, "has_project_publications", UriRef(Paper2)>>,
      <<Pr1, "has_project_url", Literal(Url1)>>,
      <<Pr1, "has_description", Literal(<<"D">>)>>,
      <<Pr1, "has_submission_date", Literal(IsoDay)>>}
     \cup PaperTriples \cup out1 \cup out2 \cup meta :
        out1 \in SUBSET {<<Pr1, "has_dataset_output", UriRef(Ds1)>>,
                         <<Pr1, "has_dataset_output", UriRef(Ds2)>>},
        out2 \in SUBSET {<<Pr2, "has_dataset_output", UriRef(Ds1)>>,
                         <<Pr2, "has_dataset_output", UriRef(Ds2)>>},
        meta \in { {},
                   {<<Pr2, "has_project_url", Literal(Url2)>>,
                    <<Pr2, "has_description", Literal(<<"E">>)>>,
                    <<Pr2, "has_submission_date", Literal(OtherDay)>>} }}

SsbdGraphs ==
    {types \cup bio \cup img \cup PaperTriples :
        types \in TypeTriples, bio \in BiosampleTriples, img \in ImagingTriples}
    \cup {types \cup proj \cup PaperTriples : types \in TypeTriples, proj \in ProjectTriples}
    \cup TitledGraphs \cup CitedGraphs \cup TwoProjectGraphs

\* the uris transform_dataset is given
SsbdUris == {Ds1, Ds2, Pr1, Ds3, Ds4}

\* a field of a study file: absent, or the key with its value
Field(key, values) == {Absent} \cup {[k \in {Key(key)} |-> v] : v \in values}

IdrStudies ==
    {a @@ b @@ c @@ d :
        a \in Field("Study Organism", {PyStr(Hs), PyList(<<Hs, Mm>>)}),
        b \in Field("Study Organism Term Accession", {PyStr(NCBITaxonUnderscore \o <<"9">>)}),
        c \in Field("Screen Imaging Method", {PyStr(Cf)}),
        d \in Field("Screen Imaging Method Term Accession",
                    {PyStr(FBbiUnderscore \o <<"0", "2">>), PyStr(FBbiColon \o <<"0", "2">>)})}
    \cup {[k \in {Key("Study Title")} |-> PyStr(<<"T">>)] @@ d :
            d \in Field("Study Public Release Date",
                        {PyStr(IsoDay), PyStr(<<"x">>), PyStr(WideDay),
                         PyList(<<IsoDay, <<"x">>>>)})}
    \cup {a @@ b @@ c :
            a \in Field("Study PubMed ID", {PyStr(<<"7">>), PyList(<<<<"7">>, <<"8">>>>)}),
            b \in Field("Study DOI", {PyStr(<<"1", "0", ".", "1">>)}),
            c \in Field("Study Publication Title", {PyStr(<<"T">>), PyList(<<<<"T">>, <<"U">>>>)})}

\* the rows of a file that parses to the mapping data
RowsOf(data) ==
    LET Rows(keys) ==
            [i \in DOMAIN keys |->
                <<keys[i]>> \o (IF data[keys[i]].t = "list" THEN data[keys[i]].items
                                ELSE <<data[keys[i]].s>>)]
    IN  Rows(StoreOrder(DOMAIN data))

StudyTxt == <<"-", "s", "t", "u", "d", "y", ".", "t", "x", "t">>
Idr1Study == Idr1 \o StudyTxt
Exp1Study == <<"e", "x", "p", "1">> \o StudyTxt

\* rows that carry no content: empty, comments, a blank key, no value
EmptyRows ==
    {<<>>,
     <<<<"#", " ", "c">>, <<"v">>>>,
     <<<<"\"", "#", "c">>, <<"v">>>>,
     <<<<" ">>, <<"v">>>>,
     <<Key("Study Title")>>,
     <<Key("Study Title"), <<" ">>, <<>>>>}

\* rows with content: the last one is no comment, its "#" follows a blank
ContentRows ==
    {<<Key("Study Title"), <<"T">>>>,
     <<Key("Study Title") \o <<" ">>, <<" ", "U">>, <<>>, <<"V">>>>,
     <<Key("Comment[IDR Study Accession]"), <<"i", "d", "r", "7">>>>,
     <<Key("Study Description"), <<"D">>>>,
     <<Key("Study License"), <<"L">>>>,
     <<<<" ", "#", "c">>, <<"v">>>>}

\* study files whose publication rows list up to two publications, some
\* with an empty cell in a column
PublicationRows(key, first, second) ==
    {<<>>, <<<<key, first>>>>, <<<<key, first, second>>>>, <<<<key, <<>>, second>>>>,
     <<<<key, first, <<>>>>>>}

PublicationFiles ==
    {[name |-> Idr1Study,
      rows |-> <<<<Key("Study Title"), <<"T">>>>>> \o p \o d \o t] :
        p \in PublicationRows(Key("Study PubMed ID"), <<"7">>, <<"8">>),
        d \in PublicationRows(Key("Study DOI"), <<"1", "0", ".", "1">>, <<"1", "0", ".", "2">>),
        t \in PublicationRows(Key("Study Publication Title"), <<"P">>, <<"Q">>)}

MaxRows == 2

\* the study files: those of the mappings above, and files of at most
\* MaxRows rows under two names
IdrFiles ==
    {[name |-> Idr1Study, rows |-> RowsOf(data)] : data \in IdrStudies}
    \cup PublicationFiles
    \cup {[name |-> name, rows |-> rows] :
            name \in {Idr1Study, Exp1Study},
            rows \in UNION {[1..n -> EmptyRows \cup ContentRows] : n \in 0..MaxRows}}

\* the study files of a repository: two with one accession, two without an
\* accession under different names, one of comments only, one whose date
\* is beyond a C int
RepoFiles ==
    {[name |-> Idr1Study, rows |-> <<<<Key("Study Title"), <<"T">>>>>>],
     [name |-> Exp1Study, rows |-> <<<<Key("Study Title"), <<"T">>>>>>],
     [name |-> Idr1Study,
      rows |-> <<<<Key("Comment[IDR Study Accession]"), <<"i", "d", "r", "7">>>>>>],
     [name |-> Exp1Study,
      rows |-> <<<<Key("Comment[IDR Study Accession]"), <<"i", "d", "r", "7">>>>,
                 <<Key("Study Title"), <<"T">>>>>>],
     [name |-> Idr1Study, rows |-> <<<<<<"#", " ", "c">>, <<"v">>>>>>],
     [name |-> Exp1Study,
      rows |-> <<<<Key("Study Public Release Date"), WideDay>>>>]}

\* free-text descriptions of a biological entity
EntityDescriptions ==
    {<<>>, <<"x">>, <<"B", "r", "a", "i", "n", " ", "T", "i", "s", "s", "u", "e">>, <<"H", "e", "L", "a", " ", "c", "e", "l", "l", " ", "l", "i", "n", "e">>,
     <<"c", "e", "l", "l", " ", "c", "u", "l", "t", "u", "r", "e">>, <<"a", "n", " ", "O", "r", "g", "a", "n", "i", "s", "m">>,
     <<"w", "h", "o", "l", "e", " ", "m", "o", "u", "n", "t">>, <<"w", "h", "o", "l", "e", " ", "c", "e", "l", "l">>,
     <<"t", "i", "s", "s", "u", "e", " ", "o", "f", " ", "a", "n", " ", "o", "r", "g", "a", "n", "i", "s", "m">>, <<"c", "e", "l", "l", "s", " ", "o", "f", " ", "a", "n", " ", "o", "r", "g", "a", "n", "i", "s", "m">>}

\* datasets with at most MaxRefs biological entities
SampleDatasets ==
    {<<[biological_entity |-> entities]>> :
        entities \in SeqsOf({[biological_entity_description |-> d, title |-> <<>>] :
                                d \in EntityDescriptions}
                            \cup {[biological_entity_description |-> <<"x">>,
                                   title |-> <<"T", " ", "c", "e", "l", "l">>]})}

BiaSource(accession_id, release_date, grant, related_publication, classifications, names, fbbi_ids) ==
    [accession_id |-> accession_id, release_date |-> release_date, grant |-> grant,
     related_publication |-> related_publication,
     dataset |-> <<[biological_entity |-> <<[organism_classification |-> classifications]>>,
                    acquisition_process |-> <<[imaging_method_name |-> names,
                                               fbbi_id |-> fbbi_ids]>>]>>]

BiaGrants ==
    { [id |-> G1, funder |-> <<[display_name |-> Wt]>>],
      [id |-> G1, funder |-> <<>>],
      [id |-> G1],
      [funder |-> <<[display_name |-> Wt]>>],
      [id |-> <<>>, funder |-> <<[display_name |-> Wt]>>] }

BiaPublications ==
    { [doi |-> None], [doi |-> <<"1", "0", ".", "1">>], [title |-> <<"T">>],
      [pubmed_id |-> <<"7">>, title |-> <<>>] }

BiaClassifications ==
    { [scientific_name |-> Hs], [common_name |-> Hs], [scientific_name |-> Mm, common_name |-> Hs],
      [scientific_name |-> <<>>] }

BiaSources ==
    {BiaSource(a, d, <<>>, <<>>, <<>>, <<>>, <<>>) :
        a \in {None, <<>>, <<"S", "1">>}, d \in DateSamples}
    \cup {BiaSource(<<"S", "1">>, PyNone, grant, <<>>, <<>>, <<>>, <<>>) : grant \in SeqsOf(BiaGrants)}
    \cup {BiaSource(<<"S", "1">>, PyNone, <<>>, pubs, <<>>, <<>>, <<>>) :
            pubs \in SeqsOf(BiaPublications)}
    \cup {BiaSource(<<"S", "1">>, PyNone, <<>>, <<>>, ocs, <<>>, <<>>) :
            ocs \in SeqsOf(BiaClassifications)}
    \cup {BiaSource(<<"S", "1">>, PyNone, <<>>, <<>>, <<>>, names, fbbi_ids) :
            names \in {<<>>, <<Cf>>, <<Cf, Em>>, <<Cf, Cf>>},
            fbbi_ids \in {<<>>, <<FBbiColon \o <<"0", "2">>>>, <<FBbiUnderscore \o <<"0", "2">>>>,
                          <<<<"0", "2">>, OboPurl \o FBbiUnderscore \o <<"0", "2">>>>}}

(* ROCrateTransformer: authors, affiliations and keywords *)

Organisation(display_name, rorid, address, website) ==
    [display_name |-> display_name, rorid |-> rorid, address |-> address,
     website |-> website]

Author(name, orcid, email, affiliations) ==
    [name |-> name, orcid |-> orcid, email |-> email, affiliations |-> affiliations]

OrcidOrg == <<"o", "r", "c", "i", "d", ".", "o", "r", "g">>
RorOrg == <<"r", "o", "r", ".", "o", "r", "g">>

\* _extract_orcid
ROCrate_extract_orcid(person) ==
    IF Contains(person.id, OrcidOrg) THEN person.id
    ELSE IF Truthy(Get(person, "identifier"))
            /\ Contains(Lower(person.identifier), <<"o", "r", "c", "i", "d">>)
    THEN person.identifier
    ELSE None

\* _extract_affiliations (a value that is a single dict stands as a list of one)
ROCrate_extract_affiliations(person, entity_map) ==
    LET OfOrg(org) ==
            Organisation(Or(Or(Get(org, "name"), Get(org, "displayName")), Unknown),
                         IF "identifier" \in DOMAIN org /\ org.identifier # None
                            /\ Contains(org.identifier, RorOrg)
                         THEN org.identifier ELSE None,
                         Get(org, "address"),
                         Or(Get(org, "url"), Get(org, "website")))
        Of(orgs) == [i \in DOMAIN orgs |-> OfOrg(orgs[i])]
    IN  Of(ROCrate_resolve_entities(
               IF GetRefs(person, "affiliation") # <<>> THEN GetRefs(person, "affiliation")
               ELSE GetRefs(person, "memberOf"),
               entity_map))

\* _extract_authors
ROCrate_extract_authors(root, entity_map) ==
    LET OfPerson(person) ==
            Author(Or(Or(Get(person, "displayName"), Get(person, "name")), Unknown),
                   ROCrate_extract_orcid(person),
                   Or(Get(person, "contactEmail"), Get(person, "email")),
                   ROCrate_extract_affiliations(person, entity_map))
        Of(persons) == [i \in DOMAIN persons |-> OfPerson(persons[i])]
    IN  Of(ROCrate_resolve_entities(
               IF GetRefs(root, "contributor") # <<>> THEN GetRefs(root, "contributor")
               ELSE GetRefs(root, "author"),
               entity_map))

\* _extract_keywords: keyword, else keywords; a str is split at "," and its
\* parts stripped, of a list the truthy members are kept
ROCrate_extract_keywords(root) ==
    LET first == IF "keyword" \in DOMAIN root THEN root.keyword ELSE PyNone
        second == IF "keywords" \in DOMAIN root THEN root.keywords ELSE PyNone
        Of(keywords) ==
            IF keywords.t = "str"
            THEN LET Parts(parts) == [i \in DOMAIN parts |-> Strip(parts[i])]
                 IN  Parts(Split(keywords.s, <<",">>))
            ELSE SelectSeq(keywords.items, Truthy)
    IN  Of(IF ~Falsy(first) THEN first ELSE IF ~Falsy(second) THEN second ELSE PyList(<<>>))

OrgNodes ==
    << [id |-> Ref(<<"o", "a">>), name |-> <<"E", "B", "I">>,
        displayName |-> <<"E", "M", "B", "L", "-", "E", "B", "I">>,
        identifier |-> <<"h", "t", "t", "p", "s", ":", "/", "/">> \o RorOrg \o <<"/", "0", "2">>,
        website |-> <<"w">>],
       [id |-> Ref(<<"o", "b">>), displayName |-> <<"R", "I", "K", "E", "N">>, url |-> <<"u">>,
        identifier |-> None],
       [id |-> Ref(<<"o", "c">>)] >>

PersonNodes ==
    {p @@ n @@ d @@ e @@ c @@ a @@ m :
        p \in {[id |-> Ref(<<"p", "e">>)],
               [id |-> <<"h", "t", "t", "p", "s", ":", "/", "/">> \o OrcidOrg \o <<"/", "1">>],
               [id |-> Ref(<<"p", "e">>), identifier |-> <<"O", "R", "C", "I", "D", ":", "1">>]},
        n \in Keyed("name", {Ann}),
        d \in Keyed("displayName", {<<"A", ".">>, <<>>}),
        e \in Keyed("email", {<<"a", "@", "x">>}),
        c \in Keyed("contactEmail", {<<"c", "@", "x">>}),
        a \in Keyed("affiliation", {<<Ref(<<"o", "a">>)>>, <<>>}),
        m \in Keyed("memberOf", {<<Ref(<<"o", "b">>), Ref(<<"g", "o", "n", "e">>), Ref(<<"o", "c">>)>>})}

OtherPerson == [id |-> Ref(<<"p", "2">>), name |-> <<"B", "o", "b">>]

\* a root that names the person as contributor, as author or as both, and
\* the graph around it
AuthorCrates ==
    UNION {{<<c @@ a @@ PlainRoot, person, OtherPerson>> \o OrgNodes :
               c \in Keyed("contributor", {<<person.id>>, <<>>}),
               a \in Keyed("author", {<<OtherPerson.id, person.id>>})} :
           person \in PersonNodes}

KeywordRoots ==
    {k1 @@ k2 @@ PlainRoot :
        k1 \in Keyed("keyword", {PyStr(<<"a", ",", " ", "b">>), PyList(<<<<"a">>, <<>>>>),
                                 PyStr(<<>>), PyNone}),
        k2 \in Keyed("keywords", {PyList(<<<<"c">>>>), PyStr(<<"c", " ">>)})}

\* roots with a citation, a relatedPublication or both
CitedCrates ==
    {Crate([title |-> <<"T">>, name |-> <<"N">>, accessionId |-> Idr1]
               @@ Root(RootId, PyNone, <<>>, <<>>, citation, related, <<>>),
           <<>>, <<>>, <<>>) :
        citation \in {<<>>, <<Ref(<<"p", "1">>)>>},
        related \in {<<>>, <<Ref(<<"p", "3">>)>>, <<Ref(<<"g", "o", "n", "e">>)>>}}

\* A reference as the code receives it: None, an inline mapping (with or
\* without "@id") or a bare string.
NoneRef == [t |-> "none"]
DictRef(id) == [t |-> "dict", id |-> id]
DictWithoutId == [t |-> "dict"]
StrRef(s) == [t |-> "str", s |-> s]

NoEntity == [kind |-> "none"]

\* _resolve_entity with the bare string never looked up
ResolveEntityOfMappingsOnly(ref, entity_map) ==
    IF ref.t = "dict" /\ "id" \in DOMAIN ref /\ ref.id \in DOMAIN entity_map
    THEN entity_map[ref.id]
    ELSE NoEntity

\* _resolve_entity: ref.get("@id") of a mapping, the string itself otherwise;
\* entity_map.get of it (no node is stored under None)
ROCrate_resolve_entity(ref, entity_map) ==
    IF ref.t = "none" THEN NoEntity
    ELSE LET Of(ref_id) ==
                 IF ref_id # None /\ ref_id \in DOMAIN entity_map
                 THEN entity_map[ref_id]
                 ELSE NoEntity
         IN  Of(IF ref.t = "dict" THEN Get(ref, "id") ELSE ref.s)

\* the loop of _resolve_entities over references as the code receives them
RECURSIVE ResolvedEntities(_, _)
ResolvedEntities(refs, entity_map) ==
    IF refs = <<>> THEN <<>>
    ELSE LET Of(entity) ==
                 (IF entity # NoEntity THEN <<entity>> ELSE <<>>)
                     \o ResolvedEntities(Tail(refs), entity_map)
         IN  Of(ROCrate_resolve_entity(Head(refs), entity_map))

\* _resolve_entities; given.refs absent stands for refs = None
ROCrate_resolve_entities_of(given, entity_map) ==
    IF "refs" \notin DOMAIN given \/ given.refs = <<>> THEN <<>>
    ELSE ResolvedEntities(given.refs, entity_map)

\* graphs in which a node references itself and two nodes reference each other
NodeA == Ref(<<"a">>)
NodeB == Ref(<<"b">>)
NodeC == Ref(<<"c">>)
LinkedGraphs ==
    { << [id |-> NodeA, about |-> <<NodeA>>] >>,
      << [id |-> NodeA, about |-> <<NodeA>>],
         [id |-> NodeB, about |-> <<NodeC>>],
         [id |-> NodeC, about |-> <<NodeB>>] >>,
      << [id |-> NodeB, about |-> <<NodeC>>],
         [id |-> NodeC, about |-> <<NodeB>>],
         [id |-> NodeB, about |-> <<NodeA>>] >> }

References ==
    {NoneRef, DictWithoutId, DictRef(NodeA), StrRef(NodeB), DictRef(NodeC), StrRef(NodeA)}

MaxRefList == 3

ReferenceLists == UNION {[1..n -> References] : n \in 0..MaxRefList}

ROCrateResolveEntity ==
    /\ op = "init" /\ ssbd.pc = "idle"
    /\ \E graph \in LinkedGraphs, ref \in References :
        /\ op' = "ROCrate._resolve_entity"
        /\ arg' = [ref |-> ref, entity_map |-> ROCrate_build_entity_map(graph)]
        /\ ret' = ROCrate_resolve_entity(ref, ROCrate_build_entity_map(graph))
    /\ UNCHANGED <<generated_ids, calls, ssbd, fbbi_label_cache, index, workers, iri_cache, requests>>

ROCrateResolveEntities ==
    /\ op = "init" /\ ssbd.pc = "idle"
    /\ \E graph \in LinkedGraphs, given \in Keyed("refs", ReferenceLists) :
        /\ op' = "ROCrate._resolve_entities"
        /\ arg' = [given |-> given, entity_map |-> ROCrate_build_entity_map(graph)]
        /\ ret' = Returned(ROCrate_resolve_entities_of(given, ROCrate_build_entity_map(graph)))
    /\ UNCHANGED <<generated_ids, calls, ssbd, fbbi_label_cache, index, workers, iri_cache, requests>>

\* roots that vary in accessionId, identifier and url: absent, null, empty,
\* a url with and without a trailing slash, without any slash, of slashes only
IdRoots ==
    {a @@ i @@ u @@ PlainRoot :
        a \in Keyed("accessionId", {Idr1, <<>>, None}),
        i \in Keyed("identifier", {SBiad1, <<>>}),
        u \in Keyed("url", {<<"h", "t", "t", "p", "s", ":", "/", "/", "h", "/", "i", "d", "r", "9", "/">>,
                            <<"h", "/", "i", "d", "r", "9">>, <<"i", "d", "r", "9">>,
                            <<"h", "/", "x", "/", "/">>, <<"/">>, <<>>, None})}

ROCrateExtractId ==
    /\ op = "init" /\ ssbd.pc = "idle"
    /\ \E root \in IdRoots :
        /\ op' = "ROCrate._extract_id"
        /\ arg' = root
        /\ ret' = [kind |-> "str", s |-> ROCrate_extract_id(root)]
    /\ UNCHANGED <<generated_ids, calls, ssbd, fbbi_label_cache, index, workers, iri_cache, requests>>

ROCrateExtractAuthors ==
    /\ op = "init" /\ ssbd.pc = "idle"
    /\ \E graph \in AuthorCrates :
        /\ op' = "ROCrate._extract_authors"
        /\ arg' = [root |-> graph[1], entity_map |-> ROCrate_build_entity_map(graph)]
        /\ ret' = Returned(ROCrate_extract_authors(graph[1], ROCrate_build_entity_map(graph)))
    /\ UNCHANGED <<generated_ids, calls, ssbd, fbbi_label_cache, index, workers, iri_cache, requests>>

ROCrateExtractKeywords ==
    /\ op = "init" /\ ssbd.pc = "idle"
    /\ \E root \in KeywordRoots :
        /\ op' = "ROCrate._extract_keywords"
        /\ arg' = root
        /\ ret' = Returned(ROCrate_extract_keywords(root))
    /\ UNCHANGED <<generated_ids, calls, ssbd, fbbi_label_cache, index, workers, iri_cache, requests>>

-----------------------------------------------------------------------------
(* The adapters as operations: one document is transformed; the SSBD        *)
(* transformer is constructed on a graph first.                            *)

ROCrateTransformCrate ==
    /\ op = "init" /\ ssbd.pc = "idle"
    /\ \E graph \in Crates \cup SourceCrates \cup TextCrates \cup RootedCrates \cup CitedCrates :
        /\ op' = "ROCrate.transform_crate"
        /\ arg' = graph
        /\ ret' = ROCrate_transform_crate(graph)
    /\ UNCHANGED <<generated_ids, calls, ssbd, fbbi_label_cache, index, workers, iri_cache, requests>>

ROCrateExtractSource ==
    /\ op = "init" /\ ssbd.pc = "idle"
    /\ \E graph \in SourceCrates :
        /\ op' = "ROCrate._extract_source"
        /\ arg' = [root |-> graph[1], entity_map |-> ROCrate_build_entity_map(graph)]
        /\ ret' = ROCrate_extract_source(graph[1], ROCrate_build_entity_map(graph))
    /\ UNCHANGED <<generated_ids, calls, ssbd, fbbi_label_cache, index, workers, iri_cache, requests>>

ROCrateInferSampleType ==
    /\ op = "init" /\ ssbd.pc = "idle"
    /\ \E description \in EntityDescriptions \cup {None} :
        /\ op' = "ROCrate._infer_sample_type"
        /\ arg' = description
        /\ ret' = [kind |-> "sample_type",
                   sample_type |-> ROCrate_infer_sample_type(description)]
    /\ UNCHANGED <<generated_ids, calls, ssbd, fbbi_label_cache, index, workers, iri_cache, requests>>

BIAExtractSampleType ==
    /\ op = "init" /\ ssbd.pc = "idle"
    /\ \E datasets \in SampleDatasets :
        /\ op' = "BIA._extract_sample_type"
        /\ arg' = datasets
        /\ ret' = [kind |-> "sample_type", sample_type |-> BIA_extract_sample_type(datasets)]
    /\ UNCHANGED <<generated_ids, calls, ssbd, fbbi_label_cache, index, workers, iri_cache, requests>>

ROCrateTransformAll ==
    /\ op = "init" /\ ssbd.pc = "idle"
    /\ \E crates \in BatchesOf(DirectoryCrates) :
        /\ op' = "ROCrate.transform_all"
        /\ arg' = crates
        /\ ret' = ROCrate_transform_all(crates)
    /\ UNCHANGED <<generated_ids, calls, ssbd, fbbi_label_cache, index, workers, iri_cache, requests>>

\* SSBDTransformer.__init__: the graph is parsed and the mappings are built
SSBDConstruct ==
    /\ op = "init" /\ ssbd.pc = "idle"
    /\ \E graph \in SsbdGraphs :
        ssbd' = [pc |-> "ready", graph |-> graph] @@ SSBD_build_project_mappings(graph)
    /\ UNCHANGED <<op, arg, ret, generated_ids, calls, fbbi_label_cache, index, workers, iri_cache, requests>>

SSBDTransformDataset ==
    /\ op = "init" /\ ssbd.pc = "ready"
    /\ \E dataset_uri \in SsbdUris :
        /\ op' = "SSBD.transform_dataset"
        /\ arg' = dataset_uri
        /\ ret' = SSBD_transform_dataset(ssbd, dataset_uri)
    /\ UNCHANGED <<generated_ids, calls, ssbd, fbbi_label_cache, index, workers, iri_cache, requests>>

SSBDParsePaper ==
    /\ op = "init" /\ ssbd.pc = "ready"
    /\ \E paper_uri \in {Paper1, Paper2} :
        /\ op' = "SSBD._parse_paper"
        /\ arg' = paper_uri
        /\ ret' = [kind |-> "publication",
                   publication |-> SSBD_parse_paper(ssbd.graph, paper_uri)]
    /\ UNCHANGED <<generated_ids, calls, ssbd, fbbi_label_cache, index, workers, iri_cache, requests>>

SSBDTransformAll ==
    /\ op = "init" /\ ssbd.pc = "ready"
    /\ op' = "SSBD.transform_all"
    /\ arg' = None
    /\ ret' = SSBD_transform_all(ssbd)
    /\ UNCHANGED <<generated_ids, calls, ssbd, fbbi_label_cache, index, workers, iri_cache, requests>>

\* _get_project_metadata as transform_dataset calls it, with the source_url
\* transform_dataset derives from its result
SSBDGetProjectMetadata ==
    /\ op = "init" /\ ssbd.pc = "ready"
    /\ \E dataset_uri \in SsbdUris :
        /\ op' = "SSBD._get_project_metadata"
        /\ arg' = dataset_uri
        /\ ret' = [kind |-> "dict",
                   data |-> SSBD_get_project_metadata(ssbd, dataset_uri),
                   source_url |-> SSBD_source_url(SSBD_get_project_metadata(ssbd, dataset_uri),
                                                  SSBD_get_dataset_id(dataset_uri))]
    /\ UNCHANGED <<generated_ids, calls, ssbd, fbbi_label_cache, index, workers, iri_cache, requests>>

IDRTransformStudy ==
    /\ op = "init" /\ ssbd.pc = "idle"
    /\ \E study_file \in IdrFiles :
        /\ op' = "IDR.transform_study"
        /\ arg' = study_file
        /\ ret' = IDR_transform_study(study_file)
    /\ UNCHANGED <<generated_ids, calls, ssbd, fbbi_label_cache, index, workers, iri_cache, requests>>

IDRParseStudyFile ==
    /\ op = "init" /\ ssbd.pc = "idle"
    /\ \E study_file \in IdrFiles :
        /\ op' = "IDR._parse_study_file"
        /\ arg' = study_file
        /\ ret' = [kind |-> "dict",
                   data |-> IDR_parse_study_file(study_file.rows, [k \in {} |-> PyNone])]
    /\ UNCHANGED <<generated_ids, calls, ssbd, fbbi_label_cache, index, workers, iri_cache, requests>>

IDRTransformAll ==
    /\ op = "init" /\ ssbd.pc = "idle"
    /\ \E study_files \in BatchesOf(RepoFiles) :
        /\ op' = "IDR.transform_all"
        /\ arg' = study_files
        /\ ret' = IDR_transform_all(study_files)
    /\ UNCHANGED <<generated_ids, calls, ssbd, fbbi_label_cache, index, workers, iri_cache, requests>>

BIATransformHit ==
    /\ op = "init" /\ ssbd.pc = "idle"
    /\ \E source \in BiaSources :
        /\ op' = "BIA.transform_hit"
        /\ arg' = source
        /\ ret' = BIA_transform_hit(source)
    /\ UNCHANGED <<generated_ids, calls, ssbd, fbbi_label_cache, index, workers, iri_cache, requests>>

\* the methods of BIATransformer that build the lists of a record
BIAExtractOrganisms ==
    /\ op = "init" /\ ssbd.pc = "idle"
    /\ \E source \in BiaSources :
        /\ op' = "BIA._extract_organisms"
        /\ arg' = source.dataset
        /\ ret' = BIA_extract_organisms(source.dataset)
    /\ UNCHANGED <<generated_ids, calls, ssbd, fbbi_label_cache, index, workers, iri_cache, requests>>

BIAExtractImagingMethods ==
    /\ op = "init" /\ ssbd.pc = "idle"
    /\ \E source \in BiaSources :
        /\ op' = "BIA._extract_imaging_methods"
        /\ arg' = source.dataset
        /\ ret' = Returned(BIA_extract_imaging_methods(source.dataset))
    /\ UNCHANGED <<generated_ids, calls, ssbd, fbbi_label_cache, index, workers, iri_cache, requests>>

BIAParsePublications ==
    /\ op = "init" /\ ssbd.pc = "idle"
    /\ \E source \in BiaSources :
        /\ op' = "BIA._parse_publications"
        /\ arg' = source.related_publication
        /\ ret' = Returned(BIA_parse_publications(source.related_publication))
    /\ UNCHANGED <<generated_ids, calls, ssbd, fbbi_label_cache, index, workers, iri_cache, requests>>

BIAParseFunding ==
    /\ op = "init" /\ ssbd.pc = "idle"
    /\ \E source \in BiaSources :
        /\ op' = "BIA._parse_funding"
        /\ arg' = source.grant
        /\ ret' = Returned(BIA_parse_funding(source.grant))
    /\ UNCHANGED <<generated_ids, calls, ssbd, fbbi_label_cache, index, workers, iri_cache, requests>>

(* gide_search_v2: transform_to_index. A metadata file is readable (json.load *)
(* returns its document) or not; a document expands as JSON-LD or not, and  *)
(* its graph is a sequence of nodes, a node being a dict (record) with id,  *)
(* type and possibly name.                                                  *)

\* pyld jsonld.frame(document, FRAME, explicit) followed by pop("@context"):
\* the frame matches the nodes typed Dataset; one match is the framed dict
\* itself, several are listed under "@graph", none leaves an empty dict
JsonldFrame(document) ==
    IF ~document.expands THEN Raised("JsonLdError")
    ELSE LET OfMatches(matches) ==
                 IF Len(matches) = 1 THEN [kind |-> "dict", data |-> matches[1]]
                 ELSE IF matches = <<>> THEN [kind |-> "dict", data |-> Absent]
                 ELSE [kind |-> "dict", data |-> [graph |-> matches]]
         IN  OfMatches(SelectSeq(document.graph,
                                 LAMBDA n : \E i \in DOMAIN n.type : n.type[i] = DatasetType))

\* Entry.model_validate: of the fields the documents of the model carry, id
\* and name are "str | None" and type is a list of str with a default
EntryValidates(data) ==
    /\ "id" \in DOMAIN data => data.id.t \in {"str", "none"}
    /\ "name" \in DOMAIN data => data.name.t \in {"str", "none"}

\* ROCrateIndexTransformer.transform
ROCrateIndex_transform(single_object) ==
    LET Of(framed_doc) ==
            IF framed_doc.kind = "raise" THEN framed_doc
            ELSE IF ~EntryValidates(framed_doc.data) THEN Raised("ValidationError")
            ELSE framed_doc
    IN  Of(JsonldFrame(single_object))

\* the loop of transform_to_index over the sorted metadata files: a file
\* json.load rejects and a document whose transform raises are passed over
RECURSIVE TransformedToIndex(_)
TransformedToIndex(metadata_files) ==
    IF metadata_files = <<>> THEN <<>>
    ELSE LET metadata_file == Head(metadata_files)
             Then(transformed) ==
                 IF transformed.kind = "raise"
                 THEN TransformedToIndex(Tail(metadata_files))
                 ELSE <<transformed.data>> \o TransformedToIndex(Tail(metadata_files))
         IN  IF ~metadata_file.readable
             THEN TransformedToIndex(Tail(metadata_files))
             ELSE Then(ROCrateIndex_transform(metadata_file.document))

\* transform_to_index on a directory with these metadata files: the list
\* written to index.json
transform_to_index(metadata_files) ==
    IF metadata_files = <<>> THEN Raised("ValueError")
    ELSE [kind |-> "written", results |-> TransformedToIndex(metadata_files)]

IndexNode(id, type, name) == [id |-> PyStr(id), type |-> <<type>>, name |-> name]

Thing == <<"T", "h", "i", "n", "g">>

IndexNodes ==
    {IndexNode(RootId, DatasetType, PyStr(<<"T">>)),
     IndexNode(RootId, DatasetType, PyList(<<PyStr(<<"T">>), PyStr(<<"U">>)>>)),
     IndexNode(<<"#", "d">>, DatasetType, PyNone),
     IndexNode(<<"#", "t">>, Thing, PyStr(<<"T">>))}

MaxNodes == 2

IndexDocuments ==
    {[expands |-> e, graph |-> g] :
        e \in BOOLEAN, g \in UNION {[1..n -> IndexNodes] : n \in 0..MaxNodes}}

MetadataFiles ==
    {[readable |-> TRUE, document |-> document] : document \in IndexDocuments}
        \cup {[readable |-> FALSE]}

TransformToIndex ==
    /\ op = "init" /\ ssbd.pc = "idle"
    /\ \E metadata_files \in BatchesOf(MetadataFiles) :
        /\ op' = "cli.transform_to_index"
        /\ arg' = metadata_files
        /\ ret' = transform_to_index(metadata_files)
    /\ UNCHANGED <<generated_ids, calls, ssbd, fbbi_label_cache, index, workers, iri_cache, requests>>

NextRec ==
    \/ ROCrateTransformCrate
    \/ ROCrateExtractSource
    \/ ROCrateExtractId
    \/ ROCrateResolveEntity
    \/ ROCrateResolveEntities
    \/ ROCrateExtractAuthors
    \/ ROCrateExtractKeywords
    \/ ROCrateInferSampleType
    \/ BIAExtractSampleType
    \/ ROCrateTransformAll
    \/ TransformToIndex
    \/ IDRParseStudyFile
    \/ IDRTransformAll
    \/ SSBDConstruct
    \/ SSBDTransformDataset
    \/ SSBDParsePaper
    \/ SSBDTransformAll
    \/ SSBDGetProjectMetadata
    \/ IDRTransformStudy
    \/ BIATransformHit
    \/ BIAExtractOrganisms
    \/ BIAExtractImagingMethods
    \/ BIAParsePublications
    \/ BIAParseFunding

SpecRec == InitNorm /\ [][NextRec]_vars

-----------------------------------------------------------------------------
(* C2, C3, C5, C8, C9, C10: the records *)

\* the records the last operation returned, when it is one of names
ProducedBy(names) ==
    IF op \notin names THEN {}
    ELSE IF ret.kind = "study" THEN {ret}
    ELSE IF ret.kind = "studies" THEN {ret.studies[i] : i \in DOMAIN ret.studies}
    ELSE {}

Adapters ==
    {"ROCrate.transform_crate", "SSBD.transform_dataset", "SSBD.transform_all",
     "IDR.transform_study", "BIA.transform_hit"}

\* the list the last operation returned, when it is the method name of
\* BIATransformer and it returned
ListOf(name) == IF op = name /\ ret.kind = "list" THEN ret.items ELSE <<>>

UnknownOrganism == <<Organism(Unknown, NoInt)>>
UnknownMethod == <<ImagingMethod(Unknown, None)>>

\* C2: every record of transform_crate, transform_dataset and transform_study
\* has a non-empty organism list in every biosample, a non-empty methods list
\* in every protocol and a release_date that is a day of the calendar; a
\* source without organisms or methods gives the single "Unknown" entry.
C2_NonEmptyAndDated ==
    /\ \A r \in ProducedBy({"ROCrate.transform_crate", "SSBD.transform_dataset",
                            "IDR.transform_study"}) :
        /\ \A i \in DOMAIN r.biosamples : r.biosamples[i].organism # <<>>
        /\ \A i \in DOMAIN r.image_acquisition_protocols :
              r.image_acquisition_protocols[i].methods # <<>>
        /\ r.release_date.kind = "date"
        /\ PyDate(r.release_date.y, r.release_date.m, r.release_date.d) = r.release_date
    /\ \A r \in ProducedBy({"ROCrate.transform_crate"}) :
        /\ (\A k \in DOMAIN arg : GetRefs(arg[k], "organismClassification") = <<>>)
              => r.biosamples[1].organism = UnknownOrganism
        /\ (\A k \in DOMAIN arg : /\ GetRefs(arg[k], "imagingMethodName") = <<>>
                                  /\ GetRefs(arg[k], "measurementTechnique") = <<>>)
              => r.image_acquisition_protocols[1].methods = UnknownMethod
    /\ \A r \in ProducedBy({"SSBD.transform_dataset"}) :
        /\ Objects(ssbd.graph, arg, "has_biosample_information") = {}
              => r.biosamples[1].organism = UnknownOrganism
        /\ Objects(ssbd.graph, arg, "has_imaging_method_total_info") = {}
              => r.image_acquisition_protocols[1].methods = UnknownMethod
    /\ \A r \in ProducedBy({"IDR.transform_study"}) :
        /\ (\A k \in DOMAIN arg.rows :
                arg.rows[k] # <<>> => Strip(arg.rows[k][1]) # Key("Study Organism"))
              => r.biosamples[1].organism[1].scientific_name = Unknown
        /\ (\A k \in DOMAIN arg.rows :
                arg.rows[k] # <<>> => Strip(arg.rows[k][1]) # Key("Screen Imaging Method"))
              => r.image_acquisition_protocols[1].methods[1].name = Unknown

C2_Witness ==
    /\ op = "ROCrate.transform_crate"
    /\ ret.kind = "study"
    /\ ret.biosamples[1].organism = UnknownOrganism
    /\ ret.image_acquisition_protocols[1].methods = UnknownMethod
    /\ ret.release_date = ROCrateDefaultDate

NoNameTwice(organisms) ==
    \A i, j \in DOMAIN organisms :
        i # j => organisms[i].scientific_name # organisms[j].scientific_name

\* C3: no record of the RO-Crate adapter holds two organisms with the same
\* scientific name, and BIATransformer._extract_organisms returns a list
\* that holds no scientific name twice.
C3_OrganismsDeduplicated ==
    /\ \A r \in ProducedBy({"ROCrate.transform_crate"}) :
        \A b \in DOMAIN r.biosamples : NoNameTwice(r.biosamples[b].organism)
    /\ op = "BIA._extract_organisms" => ret.kind = "list" /\ NoNameTwice(ret.items)

\* "FBbi:" followed by one or more digits
IsCanonicalFbbi(s) ==
    /\ Len(s) > Len(FBbiColon)
    /\ StartsWith(s, FBbiColon)
    /\ \A i \in (Len(FBbiColon) + 1)..Len(s) : IsDigit(s[i])

NullOrCanonicalFbbi(methods) ==
    \A i \in DOMAIN methods :
        methods[i].fbbi_id = None \/ IsCanonicalFbbi(methods[i].fbbi_id)

\* C5: in every record of every adapter, and in the methods list that
\* BIATransformer._extract_imaging_methods builds for a record, the fbbi_id
\* of an imaging method is null or "FBbi:" followed by digits.
C5_FbbiCanonicalInRecords ==
    /\ \A r \in ProducedBy(Adapters) :
        \A p \in DOMAIN r.image_acquisition_protocols :
            NullOrCanonicalFbbi(r.image_acquisition_protocols[p].methods)
    /\ NullOrCanonicalFbbi(ListOf("BIA._extract_imaging_methods"))

Identified(publications) ==
    \A i \in DOMAIN publications :
        \/ publications[i].doi # None \/ publications[i].pubmed_id # None
        \/ publications[i].pmc_id # None \/ publications[i].title # None
        \/ publications[i].authors_name # None \/ publications[i].year # NoInt

\* C8: every publication of every record, and of the list that
\* BIATransformer._parse_publications builds, has a field that is not null.
C8_PublicationsIdentified ==
    /\ \A r \in ProducedBy(Adapters) : Identified(r.publications)
    /\ Identified(ListOf("BIA._parse_publications"))

\* C9: every funding entry of a RO-Crate record, and of the list that
\* BIATransformer._parse_funding builds, is the funder and the grant ID that
\* one grant of the source supplies, both present.
C9_FundingFromCompleteGrants ==
    /\ \A r \in ProducedBy({"ROCrate.transform_crate"}) :
        \A i \in DOMAIN r.funding :
            \E k \in DOMAIN arg :
                /\ Truthy(Get(arg[k], "name")) /\ Truthy(Get(arg[k], "identifier"))
                /\ r.funding[i] = Funding(arg[k].name, arg[k].identifier)
    /\ \A i \in DOMAIN ListOf("BIA._parse_funding") :
        \E k \in DOMAIN arg :
            /\ Truthy(Get(arg[k], "id"))
            /\ GetRefs(arg[k], "funder") # <<>>
            /\ Truthy(Get(arg[k].funder[1], "display_name"))
            /\ ret.items[i] = Funding(arg[k].funder[1].display_name, arg[k].id)

\* C10: transform_all returns one record for each subject typed SSBD_dataset
\* and no other; a dataset without biosample or imaging node is among them,
\* with the "Unknown" entries.
C10_OneRecordPerDataset ==
    op = "SSBD.transform_all" =>
        LET typed == Subjects(ssbd.graph, "rdf:type", SsbdDataset)
        IN  /\ ret.kind = "studies"
            /\ Len(ret.studies) = Cardinality(typed)
            /\ \E f \in [DOMAIN ret.studies -> typed] :
                /\ \A i, j \in DOMAIN f : i # j => f[i] # f[j]
                /\ \A i \in DOMAIN f :
                    /\ ret.studies[i] = SSBD_transform_dataset(ssbd, f[i])
                    /\ Objects(ssbd.graph, f[i], "has_biosample_information") = {}
                          => ret.studies[i].biosamples[1].organism = UnknownOrganism
                    /\ Objects(ssbd.graph, f[i], "has_imaging_method_total_info") = {}
                          => ret.studies[i].image_acquisition_protocols[1].methods
                                = UnknownMethod


-----------------------------------------------------------------------------
(* C11 .. C20 *)

TransformAlls == {"ROCrate.transform_all", "SSBD.transform_all", "IDR.transform_all"}

\* the documents the last transform_all was given are distinct
DistinctDocuments ==
    op \in {"ROCrate.transform_all", "IDR.transform_all"}
        => \A i, j \in DOMAIN arg : i # j => arg[i] # arg[j]

\* the id is the lower-cased source, ":" and a non-empty local id
WellFormedId(r) ==
    /\ StartsWith(r.id, Lower(r.source) \o <<":">>)
    /\ Len(r.id) > Len(r.source) + 1

\* C11: every record id is "<source prefix>:<source local id>", and no two
\* records that one transform_all call returns for distinct dataset nodes,
\* study files or crate documents have the same id.
C11_IdsWellFormedAndUnique ==
    /\ \A r \in ProducedBy(Adapters \cup TransformAlls) : WellFormedId(r)
    /\ (op \in TransformAlls /\ ret.kind = "studies" /\ DistinctDocuments)
          => \A i, j \in DOMAIN ret.studies :
                i # j => ret.studies[i].id # ret.studies[j].id


\* a node "./" of the graph that is typed Dataset or bia:Study
TypedRoots(graph) ==
    {i \in DOMAIN graph :
        /\ graph[i].id = RootId
        /\ \E k \in DOMAIN GetRefs(graph[i], "type") :
              graph[i].type[k] \in {DatasetType, BiaStudyType}}

\* the nodes a descriptor of the graph is about
DescribedNodes(graph) ==
    {i \in DOMAIN graph :
        \E k \in DOMAIN graph :
            graph[k].id = DescriptorId /\ Get(graph[k], "about") = graph[i].id}

NoRootError == op = "ROCrate.transform_crate" /\ ret = Raised("ValueError")

PublisherOf(root, entity_map) ==
    IF Truthy(Get(root, "publisher")) /\ root.publisher \in DOMAIN entity_map
    THEN <<entity_map[root.publisher]>>
    ELSE <<>>

\* its lower-cased name and url, the "@id" standing in for either
PublisherText(publisher) ==
    Lower(Or(Or(Get(publisher, "name"), publisher.id), <<>>)) \o <<" ">>
        \o Lower(Or(Or(Get(publisher, "url"), publisher.id), <<>>))

\* the entries of the table that have a pattern in the publisher's text
TableMatches(root, entity_map) ==
    {i \in DOMAIN SOURCE_PATTERNS :
        /\ PublisherOf(root, entity_map) # <<>>
        /\ \E p \in SOURCE_PATTERNS[i].patterns :
              Contains(PublisherText(PublisherOf(root, entity_map)[1]), p)}

\* the accession prefixes, compared without case
HasPrefix(root, prefixes) ==
    \E p \in prefixes : StartsWith(Lower(ROCrate_extract_id(root)), Lower(p))

GivenInFile(study_file, key) ==
    {k \in DOMAIN study_file.rows :
        /\ study_file.rows[k] # <<>>
        /\ ~StartsWith(study_file.rows[k][1], <<"#">>)
        /\ Strip(study_file.rows[k][1]) = Key(key)
        /\ \E c \in 2..Len(study_file.rows[k]) : Strip(study_file.rows[k][c]) # <<>>}

\* the license SSBDTransformer gives every record
SsbdLicense == <<"C", "C", " ", "B", "Y", " ", "4", ".", "0">>

\* the description and the license of a record are str, never None
NeverNull(r) == r.description # None /\ r.license # None

ContentRow(row) ==
    /\ row # <<>>
    /\ ~StartsWith(row[1], <<"#">>) /\ ~StartsWith(row[1], <<"\"", "#">>)
    /\ Strip(row[1]) # <<>>
    /\ \E c \in 2..Len(row) : Strip(row[c]) # <<>>

HasContent(study_file) ==
    \E k \in DOMAIN study_file.rows : ContentRow(study_file.rows[k])

\* C15: transform_study returns None for a study file without content rows
\* (no rows, or only comments, blank keys and rows without a value);
\* transform_all does not raise on such a file and returns the records of the
\* other files only; every key of the mapping _parse_study_file returns is the
\* stripped first cell of a content row, never that of a comment.
C15_EmptyFileSkipped ==
    /\ (op = "IDR.transform_study" /\ ~HasContent(arg)) => ret = NoStudy
    /\ op = "IDR.transform_all" =>
        /\ ret.kind = "raise" => \E i \in DOMAIN arg : HasContent(arg[i])
        /\ ret.kind = "studies" =>
              Len(ret.studies) = Cardinality({i \in DOMAIN arg : HasContent(arg[i])})
    /\ op = "IDR._parse_study_file" =>
        \A key \in DOMAIN ret.data :
            \E k \in DOMAIN arg.rows :
                ContentRow(arg.rows[k]) /\ Strip(arg.rows[k][1]) = key

\* a batch of a file of comments and a file with content: one record
C15_Witness ==
    /\ op = "IDR.transform_all"
    /\ \E i \in DOMAIN arg : ~HasContent(arg[i]) /\ arg[i].rows # <<>>
    /\ \E i \in DOMAIN arg : HasContent(arg[i])
    /\ ret.kind = "studies" /\ Len(ret.studies) = 1


\* the citation text of the paper the last _parse_paper was given
PaperInfo == SSBD_get_literal(ssbd.graph, arg, "has_paper_information")

\* no "(dddd)" with text before it and text after it
NotACitation(paper_info) ==
    \A i \in 2..(Len(paper_info) - 6) :
        ~(/\ paper_info[i] = "(" /\ paper_info[i + 5] = ")"
          /\ \A k \in 1..4 : IsDigit(paper_info[i + k]))

\* C16: _parse_paper returns a Publication for every paper, so a record has
\* one publication for each paper of its project (of one of them when several
\* projects list the dataset). A citation
\* "<authors> (<4-digit year>) <title>, <rest>" (authors without a year in
\* parentheses, title without a comma) gives authors_name, year and title;
\* a citation without "(<4 digits>)" between two texts gives no authors_name,
\* no year and the whole text as title.
C16_CitationParsed ==
    /\ op = "SSBD._parse_paper" =>
        /\ \A c \in CitationParts :
              PaperInfo = Citation(c) =>
                  /\ ret.publication.authors_name = c.authors
                  /\ ret.publication.year = DigitsValue(c.year)
                  /\ ret.publication.title = c.title
        /\ (PaperInfo = None \/ NotACitation(PaperInfo)) =>
              /\ ret.publication.authors_name = None
              /\ ret.publication.year = NoInt
              /\ ret.publication.title = PaperInfo
    /\ \A r \in ProducedBy({"SSBD.transform_dataset"}) :
          LET listing == Subjects(ssbd.graph, "has_dataset_output", UriRef(arg))
          IN  IF listing = {} THEN r.publications = <<>>
              ELSE \E p \in listing :
                      Len(r.publications) =
                          Cardinality(Objects(ssbd.graph, p, "has_project_publications"))

\* a citation without a blank before the year and with journal text after
\* the title
C16_Witness ==
    /\ op = "SSBD._parse_paper"
    /\ \E c \in CitationParts :
          /\ c.gap = <<>> /\ c.rest # <<>> /\ Len(c.authors) > 1
          /\ PaperInfo = Citation(c)
          /\ ret.publication.title = c.title
          /\ ret.publication.year = 2020


\* the rules of the claim, applied in order to a lower-cased text
SampleTypeRule(text) ==
    IF Contains(text, <<"t", "i", "s", "s", "u", "e">>) THEN "tissue"
    ELSE IF Contains(text, <<"c", "e", "l", "l", " ", "l", "i", "n", "e">>) \/ Contains(text, <<"c", "e", "l", "l", " ", "c", "u", "l", "t", "u", "r", "e">>)
         THEN "cell"
    ELSE IF Contains(text, <<"o", "r", "g", "a", "n", "i", "s", "m">>) \/ Contains(text, <<"w", "h", "o", "l", "e">>)
         THEN "organism"
    ELSE IF Contains(text, <<"c", "e", "l", "l">>) THEN "cell"
    ELSE "unknown"

\* C17: _infer_sample_type, and _extract_sample_type on the description and
\* title of one biological entity, return what the rules give in their fixed
\* order, without regard to case: "tissue", then "cell line" or
\* "cell culture", then "organism" or "whole", then "cell", else "unknown"
\* (also without a description).
C17_SampleTypeRules ==
    /\ op = "ROCrate._infer_sample_type" =>
          ret.sample_type = IF Truthy(arg) THEN SampleTypeRule(Lower(arg)) ELSE "unknown"
    /\ (op = "BIA._extract_sample_type" /\ Len(arg[1].biological_entity) = 1) =>
          ret.sample_type =
              SampleTypeRule(Lower(arg[1].biological_entity[1].biological_entity_description
                                       \o <<" ">> \o arg[1].biological_entity[1].title))

-----------------------------------------------------------------------------
(* gide_search_v2: the labels of the imaging methods. A transformer keeps  *)
(* fbbi_label_cache, a dict from a term to its label or None, modelled as  *)
(* the set of its items. The ontology service is the environment: what it  *)
(* answers to the GET of a term is an input of the call.                   *)

Cached(cache, term) == \E e \in cache : e.term = term

CacheGet(cache, term) == (CHOOSE e \in cache : e.term = term).label

CachePut(cache, term, label) ==
    {e \in cache : e.term # term} \cup {[term |-> term, label |-> label]}

\* _get_fbbi_label_from_ontology that looks a term without label up again
GetFbbiLabelRetrying(cache, fbbi_term, response) ==
    IF Cached(cache, fbbi_term) /\ CacheGet(cache, fbbi_term) # None
    THEN [label |-> CacheGet(cache, fbbi_term), cache |-> cache, fetched |-> <<>>]
    ELSE IF response.error # "none" \/ ~response.parses \/ response.labels = <<>>
    THEN [label |-> None, cache |-> CachePut(cache, fbbi_term, None),
          fetched |-> <<fbbi_term>>]
    ELSE [label |-> Head(response.labels),
          cache |-> CachePut(cache, fbbi_term, Head(response.labels)),
          fetched |-> <<fbbi_term>>]

\* ROCrateTransformer._get_fbbi_label_from_ontology: the label returned, the
\* cache after and the terms httpx.get was called for (fetched).
\* response.error is the exception of httpx.get or of raise_for_status
\* ("none" without one), response.parses tells whether
\* graph.parse accepts the body, response.labels are the rdfs:label objects
\* of the term in the parsed graph
ROCrate_get_fbbi_label_from_ontology(cache, fbbi_term, response) ==
    IF Cached(cache, fbbi_term)
    THEN [label |-> CacheGet(cache, fbbi_term), cache |-> cache, fetched |-> <<>>]
    ELSE IF response.error # "none" \/ ~response.parses
    THEN [label |-> None, cache |-> CachePut(cache, fbbi_term, None),
          fetched |-> <<fbbi_term>>]
    ELSE IF response.labels # <<>>
    THEN [label |-> Head(response.labels),
          cache |-> CachePut(cache, fbbi_term, Head(response.labels)),
          fetched |-> <<fbbi_term>>]
    ELSE [label |-> None, cache |-> CachePut(cache, fbbi_term, None),
          fetched |-> <<fbbi_term>>]

\* the DefinedTerm nodes of one protocol's fbbi_id list and the cache after;
\* web maps each term to what the service answers
RECURSIVE BIAImagingMethods(_, _, _)
BIAImagingMethods(fbbi_ids, cache, web) ==
    IF fbbi_ids = <<>> THEN [nodes |-> <<>>, cache |-> cache, fetched |-> <<>>]
    ELSE LET fbbi_id == Head(fbbi_ids)
             Then(found) ==
                 LET After(rest) ==
                         [nodes |-> <<[id |-> fbbi_id, type |-> <<"DefinedTerm">>,
                                       name |-> found.label]>> \o rest.nodes,
                          cache |-> rest.cache,
                          fetched |-> found.fetched \o rest.fetched]
                 IN  After(BIAImagingMethods(Tail(fbbi_ids), found.cache, web))
         IN  IF fbbi_id = None \/ fbbi_id = <<>>
             THEN BIAImagingMethods(Tail(fbbi_ids), cache, web)
             ELSE Then(ROCrate_get_fbbi_label_from_ontology(cache, fbbi_id, web[fbbi_id]))

\* the LabProtocol nodes of one dataset's acquisition_process list
RECURSIVE BIALabProtocols(_, _, _)
BIALabProtocols(acquisition_process, cache, web) ==
    IF acquisition_process = <<>> THEN [nodes |-> <<>>, cache |-> cache, fetched |-> <<>>]
    ELSE LET p == Head(acquisition_process)
             Then(methods) ==
                 LET After(rest) ==
                         [nodes |-> <<[id |-> <<"#">> \o p.uuid,
                                       type |-> <<"LabProtocol">>,
                                       name |-> p.title,
                                       description |-> p.protocol_description,
                                       labEquipment |-> p.imaging_instrument_description,
                                       measurementTechnique |-> methods.nodes]>>
                                    \o rest.nodes,
                          cache |-> rest.cache,
                          fetched |-> methods.fetched \o rest.fetched]
                 IN  After(BIALabProtocols(Tail(acquisition_process), methods.cache, web))
         IN  Then(BIAImagingMethods(p.fbbi_id, cache, web))

RECURSIVE BIADatasetProtocols(_, _, _)
BIADatasetProtocols(datasets, cache, web) ==
    IF datasets = <<>> THEN [nodes |-> <<>>, cache |-> cache, fetched |-> <<>>]
    ELSE LET Then(first) ==
                 LET After(rest) == [nodes |-> first.nodes \o rest.nodes,
                                     cache |-> rest.cache,
                                     fetched |-> first.fetched \o rest.fetched]
                 IN  After(BIADatasetProtocols(Tail(datasets), first.cache, web))
         IN  Then(BIALabProtocols(Head(datasets).acquisition_process, cache, web))

\* BIAROCrateTransformer._get_imaging_protocols: the LabProtocol nodes in
\* order, then one reference per term of imaginge_method_ids (a set, whose
\* iteration order is not fixed: the references are given as a set)
BIA_get_imaging_protocols(bia_search_hit, cache, web) ==
    LET Of(r) ==
            [kind |-> "nodes",
             protocols |-> r.nodes,
             references |->
                 UNION {{r.nodes[i].measurementTechnique[j].id :
                            j \in DOMAIN r.nodes[i].measurementTechnique} :
                        i \in DOMAIN r.nodes},
             cache |-> r.cache,
             fetched |-> r.fetched]
    IN  Of(BIADatasetProtocols(bia_search_hit.dataset, cache, web))

Confocal == <<"c", "o", "n", "f", "o", "c", "a", "l">>
Fbbi246 == <<"F", "B", "b", "i", "_", "2", "4", "6">>
Fbbi251 == <<"F", "B", "b", "i", "_", "2", "5", "1">>

FbbiTerms == {Fbbi246, Fbbi251}

\* what the service answers: a timeout of httpx.get, an error status at
\* raise_for_status, a body graph.parse rejects, a graph without a label of
\* the term, a graph with one
Responses ==
    { [error |-> "TimeoutException", parses |-> FALSE, labels |-> <<>>],
      [error |-> "HTTPStatusError", parses |-> FALSE, labels |-> <<>>],
      [error |-> "none", parses |-> FALSE, labels |-> <<>>],
      [error |-> "none", parses |-> TRUE, labels |-> <<>>],
      [error |-> "none", parses |-> TRUE, labels |-> <<Confocal>>] }

Unavailable(response) == response.error # "none" \/ ~response.parses

NoLabel(response) == ~Unavailable(response) /\ response.labels = <<>>

Acquisition(fbbi_id) ==
    [uuid |-> <<"u", "1">>, title |-> <<"i", "m", "a", "g", "i", "n", "g">>,
     protocol_description |-> <<"d">>, imaging_instrument_description |-> <<"m">>,
     fbbi_id |-> fbbi_id]

MaxMethods == 2

FbbiIdLists == UNION {[1..n -> FbbiTerms \cup {<<>>}] : n \in 0..MaxMethods}

ProtocolHits ==
    {[dataset |-> <<[acquisition_process |-> <<Acquisition(l)>>]>>] : l \in FbbiIdLists}
        \cup {[dataset |-> <<[acquisition_process |-> <<Acquisition(<<Fbbi246>>)>>],
                             [acquisition_process |-> <<Acquisition(<<Fbbi246, Fbbi251>>)>>]>>],
              [dataset |-> <<>>]}

\* the requests of instance self for the terms fetched
Fetches(self, fetched) == [i \in DOMAIN fetched |-> [self |-> self, term |-> fetched[i]]]

\* one lookup on the transformer
GetFbbiLabelFromOntology ==
    /\ \E fbbi_term \in FbbiTerms, response \in Responses :
        LET Of(r) ==
                /\ ret' = r.label
                /\ fbbi_label_cache' = r.cache
                /\ requests' = requests \o Fetches(0, r.fetched)
        IN  /\ op' = "ROCrate._get_fbbi_label_from_ontology"
            /\ arg' = [fbbi_term |-> fbbi_term, response |-> response]
            /\ Of(ROCrate_get_fbbi_label_from_ontology(fbbi_label_cache, fbbi_term, response))
    /\ UNCHANGED <<generated_ids, calls, ssbd, index, workers, iri_cache>>

\* the terms a hit names
TermsOfHit(bia_search_hit) ==
    UNION {UNION {{p.fbbi_id[k] : k \in {n \in DOMAIN p.fbbi_id : p.fbbi_id[n] # <<>>}} :
                    p \in {d.acquisition_process[j] : j \in DOMAIN d.acquisition_process}} :
           d \in {bia_search_hit.dataset[i] : i \in DOMAIN bia_search_hit.dataset}}

\* the imaging protocols of one hit built on the transformer, the service
\* answering each term the hit names as web tells
GetImagingProtocols ==
    /\ \E bia_search_hit \in ProtocolHits :
       \E web \in [TermsOfHit(bia_search_hit) -> Responses] :
        LET Of(r) ==
                /\ ret' = [kind |-> "nodes", protocols |-> r.protocols,
                           references |-> r.references]
                /\ fbbi_label_cache' = r.cache
                /\ requests' = requests \o Fetches(0, r.fetched)
        IN  /\ op' = "BIA._get_imaging_protocols"
            /\ arg' = [bia_search_hit |-> bia_search_hit, web |-> web]
            /\ Of(BIA_get_imaging_protocols(bia_search_hit, fbbi_label_cache, web))
    /\ UNCHANGED <<generated_ids, calls, ssbd, index, workers, iri_cache>>

NextOnt == GetFbbiLabelFromOntology \/ GetImagingProtocols

SpecOnt == InitNorm /\ [][NextOnt]_vars

\* the lookup answered without a label: the service was unavailable or the
\* parsed graph holds no label of the term, and the term was not cached
LookupWithoutLabel ==
    /\ op' = "ROCrate._get_fbbi_label_from_ontology"
    /\ ~Cached(fbbi_label_cache, arg'.fbbi_term)
    /\ Unavailable(arg'.response) \/ NoLabel(arg'.response)

\* the names of the imaging methods of the protocols just built
MethodNames(nodes) ==
    UNION {{nodes[i].measurementTechnique[j].name :
               j \in DOMAIN nodes[i].measurementTechnique} : i \in DOMAIN nodes}

\* C18: a lookup that finds no label and a lookup whose service is
\* unavailable (timeout, error status, unparsable body) end alike:
\* _get_fbbi_label_from_ontology returns without raising, and every imaging
\* method of the protocols built has a label for its name, never None.
C18_LabelFallsBack ==
    [][ /\ LookupWithoutLabel =>
            /\ ret' = None
            /\ fbbi_label_cache' = CachePut(fbbi_label_cache, arg'.fbbi_term, None)
        /\ op' = "BIA._get_imaging_protocols" =>
            None \notin MethodNames(ret'.protocols) ]_vars

\* the records of the crates whose own transformation does not raise, in order
OwnRecords(crates) ==
    SelectSeq([i \in DOMAIN crates |-> ROCrate_transform_crate(crates[i])],
              LAMBDA r : r.kind # "raise")

\* the framed documents of the files that are read and transformed, in order
OwnDocuments(metadata_files) ==
    LET Outcome(f) == IF f.readable THEN ROCrateIndex_transform(f.document)
                      ELSE Raised("JSONDecodeError")
        kept == SelectSeq([i \in DOMAIN metadata_files |-> Outcome(metadata_files[i])],
                          LAMBDA r : r.kind # "raise")
    IN  [i \in DOMAIN kept |-> kept[i].data]

\* C19: a document of a batch that fails (no root dataset, a validation or
\* transform error) aborts only its own transformation: transform_all over a
\* directory returns, and transform_to_index writes, the records of every
\* other document of the batch.
C19_FailureAbortsOnlyItsDocument ==
    /\ op = "ROCrate.transform_all" =>
        /\ ret.kind = "studies"
        /\ ret.studies = OwnRecords(arg)
    /\ (op = "cli.transform_to_index" /\ arg # <<>>) =>
        /\ ret.kind = "written"
        /\ ret.results = OwnDocuments(arg)

-----------------------------------------------------------------------------
(* The indexers. The Elasticsearch index is the sequence of its hits, a hit *)
(* being [_id, _source]; a document is a dict (record). Both indexers write *)
(* the index "gide-datasets". calls logs each call with its input and what  *)
(* it returned.                                                             *)

\* a value a field of type "date" takes: null or yyyy-MM-dd
IsDateValue(v) ==
    \/ v = None
    \/ /\ Len(v) = 10
       /\ \A i \in {1, 2, 3, 4, 6, 7, 9, 10} : IsDigit(v[i])
       /\ v[5] = "-" /\ v[8] = "-"

\* whether the index takes the document under INDEX_MAPPING, whose field
\* date_field has the type "date" (the other fields of the model are
\* keyword and text fields, which take any string)
MappingAccepts(document, date_field) ==
    date_field \in DOMAIN document => IsDateValue(document[date_field])

\* the index after a request that appends the document under an id of its own
EsIndexAutoId(hits, id, document) == Append(hits, [_id |-> id, _source |-> document])

\* es.index(index=..., id=id, document=document), and one action of bulk:
\* the document replaces the hit of that _id, or is added under it
EsIndex(hits, id, document) ==
    IF \E i \in DOMAIN hits : hits[i]._id = id
    THEN [i \in DOMAIN hits |->
             IF hits[i]._id = id THEN [_id |-> id, _source |-> document] ELSE hits[i]]
    ELSE Append(hits, [_id |-> id, _source |-> document])

\* index_study / index_entry: what the call returns (None) and the index after;
\* study["id"] raises KeyError, a document the mapping rejects makes
\* es.index raise
IndexOne(hits, study, date_field) ==
    IF "id" \notin DOMAIN study
    THEN [output |-> Raised("KeyError"), index |-> hits]
    ELSE IF ~MappingAccepts(study, date_field)
    THEN [output |-> Raised("BadRequestError"), index |-> hits]
    ELSE [output |-> [kind |-> "none"], index |-> EsIndex(hits, study.id, study)]

\* bulk(self.es, generate_actions(), raise_on_error=False): the actions are
\* applied in order, a rejected document is counted as an error; the call
\* returns (success, error_count)
RECURSIVE EsBulk(_, _, _, _, _)
EsBulk(hits, studies, date_field, success, errors) ==
    IF studies = <<>>
    THEN [output |-> [kind |-> "counts", success |-> success, errors |-> errors],
          index |-> hits]
    ELSE IF MappingAccepts(Head(studies), date_field)
    THEN EsBulk(EsIndex(hits, Head(studies).id, Head(studies)), Tail(studies),
                date_field, success + 1, errors)
    ELSE EsBulk(hits, Tail(studies), date_field, success, errors + 1)

\* index_studies / index_entries: generate_actions raises KeyError at a
\* study without "id" while bulk collects its first chunk, before any
\* request is sent
IndexMany(hits, studies, date_field) ==
    IF \E i \in DOMAIN studies : "id" \notin DOMAIN studies[i]
    THEN [output |-> Raised("KeyError"), index |-> hits]
    ELSE EsBulk(hits, studies, date_field, 0, 0)

DatasetIndexer_index_study(hits, study) == IndexOne(hits, study, "release_date")

DatasetIndexer_index_studies(hits, studies) == IndexMany(hits, studies, "release_date")

DatabaseEntryIndexer_index_entry(hits, study) == IndexOne(hits, study, "datePublished")

DatabaseEntryIndexer_index_entries(hits, studies) == IndexMany(hits, studies, "datePublished")

Soon == <<"s", "o", "o", "n">>
IdrId == <<"i", "d", "r", ":", "1">>
BiaId == <<"b", "i", "a", ":", "2">>

Summaries ==
    {[id |-> id, title |-> t, release_date |-> IsoDay] : id \in {IdrId, BiaId},
                                                          t \in {<<"A">>, <<"B">>}}
        \cup {[id |-> IdrId, title |-> <<"C">>, release_date |-> Soon],
              [title |-> <<"A">>, release_date |-> IsoDay]}

Entries ==
    {[id |-> IdrId, name |-> <<"A">>, datePublished |-> IsoDay],
     [id |-> IdrId, name |-> <<"B">>, datePublished |-> Soon],
     [id |-> BiaId, name |-> <<"A">>]}

\* a call on an indexer: the index after it and its entry in the log
Logged(fn, input, r) ==
    /\ index' = r.index
    /\ calls' = Append(calls, [fn |-> fn, input |-> input, output |-> r.output])

IndexStudy ==
    /\ Len(calls) < MaxCalls
    /\ \E study \in Summaries :
        Logged("index_study", study, DatasetIndexer_index_study(index, study))
    /\ UNCHANGED <<op, arg, ret, generated_ids, ssbd, fbbi_label_cache, workers, iri_cache, requests>>

IndexStudies ==
    /\ Len(calls) < MaxCalls
    /\ \E studies \in BatchesOf(Summaries) :
        Logged("index_studies", studies, DatasetIndexer_index_studies(index, studies))
    /\ UNCHANGED <<op, arg, ret, generated_ids, ssbd, fbbi_label_cache, workers, iri_cache, requests>>

IndexEntry ==
    /\ Len(calls) < MaxCalls
    /\ \E study \in Entries :
        Logged("index_entry", study, DatabaseEntryIndexer_index_entry(index, study))
    /\ UNCHANGED <<op, arg, ret, generated_ids, ssbd, fbbi_label_cache, workers, iri_cache, requests>>

IndexEntries ==
    /\ Len(calls) < MaxCalls
    /\ \E studies \in BatchesOf(Entries) :
        Logged("index_entries", studies, DatabaseEntryIndexer_index_entries(index, studies))
    /\ UNCHANGED <<op, arg, ret, generated_ids, ssbd, fbbi_label_cache, workers, iri_cache, requests>>

NextIdx == IndexStudy \/ IndexStudies \/ IndexEntry \/ IndexEntries

SpecIdx == InitRef /\ [][NextIdx]_vars

\* the documents one logged call asked to index and the index took
TakenFrom(c) ==
    LET date_field == IF c.fn \in {"index_study", "index_studies"}
                      THEN "release_date" ELSE "datePublished"
        Takes(doc) == "id" \in DOMAIN doc /\ MappingAccepts(doc, date_field)
    IN  IF c.fn \in {"index_study", "index_entry"}
        THEN (IF Takes(c.input) THEN <<c.input>> ELSE <<>>)
        ELSE IF \A i \in DOMAIN c.input : "id" \in DOMAIN c.input[i]
        THEN SelectSeq(c.input, Takes)
        ELSE <<>>

\* the documents indexed so far, in the order they were indexed
RECURSIVE IndexedBy(_)
IndexedBy(log) ==
    IF log = <<>> THEN <<>>
    ELSE IndexedBy(SubSeq(log, 1, Len(log) - 1)) \o TakenFrom(log[Len(log)])

\* the index holds one hit per id indexed, and it is the last document
\* indexed under that id
UpsertedFrom(indexed) ==
    /\ \A i, j \in DOMAIN index : index[i]._id = index[j]._id => i = j
    /\ {index[i]._id : i \in DOMAIN index} = {indexed[k].id : k \in DOMAIN indexed}
    /\ \A i \in DOMAIN index :
        \E k \in DOMAIN indexed :
            /\ indexed[k] = index[i]._source
            /\ indexed[k].id = index[i]._id
            /\ \A l \in DOMAIN indexed : indexed[l].id = index[i]._id => l <= k

\* the step is a bulk call given the batch of the call before it
SameBatchAgain ==
    /\ calls # <<>>
    /\ Len(calls') = Len(calls) + 1
    /\ calls'[Len(calls')].fn \in {"index_studies", "index_entries"}
    /\ calls'[Len(calls')].fn = calls[Len(calls)].fn
    /\ calls'[Len(calls')].input = calls[Len(calls)].input

\* C20: indexing is an upsert keyed by the id of the record: after any
\* sequence of index_study / index_studies (index_entry / index_entries)
\* calls the index holds at most one document per id, the one indexed last
\* under that id, and indexing the same batch a second time leaves the
\* number of documents unchanged.
C20_IndexIsUpsertById ==
    /\ [](UpsertedFrom(IndexedBy(calls)))
    /\ [][SameBatchAgain => Len(index') = Len(index)]_vars

\* a batch of two different documents of one id was indexed twice, and the
\* index holds the second document alone
C20_Witness ==
    /\ Len(calls) = 2
    /\ calls[1] = calls[2]
    /\ calls[1].fn = "index_studies"
    /\ Len(calls[1].input) = 2
    /\ calls[1].output = [kind |-> "counts", success |-> 2, errors |-> 0]
    /\ calls[1].input[1].id = calls[1].input[2].id
    /\ calls[1].input[1] # calls[1].input[2]
    /\ Len(index) = 1
    /\ index[1]._source = calls[1].input[2]

-----------------------------------------------------------------------------
(* gide_search_v2 used from several threads, one per source: each thread    *)
(* (worker) constructs a BIAROCrateTransformer and an OntologyTermFinder of *)
(* its own. generated_ids and fbbi_label_cache are attributes __init__      *)
(* assigns; the cache of @cache on _get_iri_for_class_in_ontology belongs   *)
(* to the function, one for all finders, with self among the arguments of   *)
(* its keys. calls logs each finished call with the worker, its input, the  *)
(* answer of the service it consumed and its output.                        *)

NoResponse == [kind |-> "none"]

\* the key that ignores which finder is called
IriCacheKeyWithoutSelf(self, ontology, search_terms, required_superclass) ==
    [self |-> 0, ontology |-> ontology, search_terms |-> search_terms,
     required_superclass |-> required_superclass]

\* the key functools.cache makes of the arguments of the method
IriCacheKey(self, ontology, search_terms, required_superclass) ==
    [self |-> self, ontology |-> ontology, search_terms |-> search_terms,
     required_superclass |-> required_superclass]

IriCached(cache, key) == \E e \in cache : e.key = key

IriCacheGet(cache, key) == (CHOOSE e \in cache : e.key = key).value

IriCachePut(cache, key, value) ==
    {e \in cache : e.key # key} \cup {[key |-> key, value |-> value]}

\* OntologyTermFinder._simplify_search_term
SimplifySearchTerm(search_terms) == Lower(Strip(search_terms))

\* the loop of _get_iri_for_class_in_ontology over api_response["elements"]
RECURSIVE IrisAndLabels(_, _)
IrisAndLabels(elements, required_superclass) ==
    IF elements = <<>> THEN <<>>
    ELSE LET ontology_term == Head(elements)
             kept == IF required_superclass # None /\ required_superclass # <<>>
                     THEN \E i \in DOMAIN ontology_term.hierarchicalAncestor :
                              ontology_term.hierarchicalAncestor[i].iri = required_superclass
                     ELSE TRUE
         IN  (IF kept THEN <<[iri |-> ontology_term.iri, label |-> ontology_term.label]>>
              ELSE <<>>)
                 \o IrisAndLabels(Tail(elements), required_superclass)

\* the body of _get_iri_for_class_in_ontology on the answer of the service:
\* _find_class_in_ontology raises when the request fails
OntologyTermFinder_get_iri_for_class_in_ontology(api_response, required_superclass) ==
    IF api_response.kind = "error" THEN Raised("HTTPError")
    ELSE Returned(IrisAndLabels(api_response.elements, required_superclass))

\* find_iri_for_class_in_ontology up to the cache lookup: the output when no
\* request is needed, [kind |-> "request"] with the key otherwise
OntologyTermFinder_find_iri_for_class_in_ontology(cache, self, avaliable_ontology_ids, ontology, search_terms, required_superclass) ==
    LET OfKey(key) ==
            IF IriCached(cache, key) THEN IriCacheGet(cache, key)
            ELSE [kind |-> "request", key |-> key]
    IN  IF \A i \in DOMAIN avaliable_ontology_ids : avaliable_ontology_ids[i] # ontology
        THEN Raised("KeyError")
        ELSE OfKey(IriCacheKey(self, ontology, SimplifySearchTerm(search_terms),
                               required_superclass))

Idling == [kind |-> "idle"]

\* a worker after BIAROCrateTransformer() and OntologyTermFinder(), whose
\* __init__ lists the ontologies the service has
Worker(avaliable_ontology_ids) ==
    [generated_ids |-> {}, fbbi_label_cache |-> {},
     avaliable_ontology_ids |-> avaliable_ontology_ids, pending |-> Idling]

FbbiName == <<"f", "b", "b", "i">>
NcbiName == <<"n", "c", "b", "i">>
Microscopy == <<"c", "1">>

OntologyLists == {<<FbbiName>>, <<FbbiName, NcbiName>>}

SearchTerms == {<<"c", "o", "n", "f">>, <<" ", "C", "o", "n", "f">>}

Element(iri, ancestors) ==
    [iri |-> iri, label |-> <<Confocal>>, hierarchicalAncestor |-> ancestors]

ApiResponses ==
    { [kind |-> "error"],
      [kind |-> "json", elements |-> <<Element(Fbbi246, <<[iri |-> Microscopy]>>),
                                       Element(Fbbi251, <<>>)>>],
      [kind |-> "json", elements |-> <<Element(Fbbi251, <<>>)>>] }

LabelResponses ==
    {r \in Responses : r.error = "TimeoutException" \/ r.labels # <<>>}

InitCon ==
    /\ op = "init" /\ arg = None /\ ret = None
    /\ generated_ids = {} /\ calls = <<>> /\ ssbd = [pc |-> "idle"]
    /\ fbbi_label_cache = {} /\ index = <<>>
    /\ workers \in {<<Worker(<<FbbiName>>), Worker(l)>> : l \in OntologyLists}
    /\ iri_cache = {} /\ requests = <<>>

\* the calls begun and not yet logged
Pending == {w \in DOMAIN workers : workers[w].pending # Idling}

\* worker w may begin a call
MayCall(w) == workers[w].pending = Idling /\ Len(calls) + Cardinality(Pending) < MaxCalls

LoggedCall(w, fn, input, response, output) ==
    calls' = Append(calls, [self |-> w, fn |-> fn, input |-> input,
                            response |-> response, output |-> output])

WorkerGenerateRefId ==
    /\ \E w \in DOMAIN workers, key \in RefKeys, force_unique \in BOOLEAN :
        /\ MayCall(w)
        /\ workers' = [workers EXCEPT ![w].generated_ids =
                           RefIdsAfter(key, force_unique, workers[w].generated_ids)]
        /\ LoggedCall(w, "_generate_ref_id", [key |-> key, force_unique |-> force_unique],
                      NoResponse, RefIdFor(key, force_unique, workers[w].generated_ids))
    /\ UNCHANGED <<op, arg, ret, generated_ids, ssbd, fbbi_label_cache, index, iri_cache, requests>>

WorkerGetFbbiLabel ==
    /\ \E w \in DOMAIN workers, fbbi_term \in FbbiTerms, response \in LabelResponses :
        LET Of(r) ==
                /\ workers' = [workers EXCEPT ![w].fbbi_label_cache = r.cache]
                /\ requests' = requests \o Fetches(w, r.fetched)
                /\ LoggedCall(w, "_get_fbbi_label_from_ontology", [fbbi_term |-> fbbi_term],
                              response, r.label)
        IN  /\ MayCall(w)
            /\ Of(ROCrate_get_fbbi_label_from_ontology(workers[w].fbbi_label_cache,
                                                       fbbi_term, response))
    /\ UNCHANGED <<op, arg, ret, generated_ids, ssbd, fbbi_label_cache, index, iri_cache>>

\* find_iri_for_class_in_ontology is called: it returns at once (KeyError, or
\* the cached value) or sends its request
WorkerFindIri ==
    /\ \E w \in DOMAIN workers, ontology \in {FbbiName, NcbiName},
          search_terms \in SearchTerms, required_superclass \in {None, Microscopy} :
        LET input == [ontology |-> ontology, search_terms |-> search_terms,
                      required_superclass |-> required_superclass]
            Of(r) ==
                IF r.kind = "request"
                THEN /\ workers' = [workers EXCEPT ![w].pending =
                                        [kind |-> "requested", input |-> input, key |-> r.key]]
                     /\ UNCHANGED calls
                ELSE /\ LoggedCall(w, "find_iri_for_class_in_ontology", input, NoResponse, r)
                     /\ UNCHANGED workers
        IN  /\ MayCall(w)
            /\ Of(OntologyTermFinder_find_iri_for_class_in_ontology(
                      iri_cache, w, workers[w].avaliable_ontology_ids,
                      ontology, search_terms, required_superclass))
    /\ UNCHANGED <<op, arg, ret, generated_ids, ssbd, fbbi_label_cache, index, iri_cache, requests>>

\* the request of worker w is answered: the method body runs and the cache
\* stores what it returns (nothing when it raises)
WorkerFindIriReturn ==
    /\ \E w \in Pending, api_response \in ApiResponses :
        LET p == workers[w].pending
            Of(r) ==
                /\ iri_cache' = IF r.kind = "raise" THEN iri_cache
                                ELSE IriCachePut(iri_cache, p.key, r)
                /\ LoggedCall(w, "find_iri_for_class_in_ontology", p.input, api_response, r)
        IN  /\ workers' = [workers EXCEPT ![w].pending = Idling]
            /\ Of(OntologyTermFinder_get_iri_for_class_in_ontology(
                      api_response, p.input.required_superclass))
    /\ UNCHANGED <<op, arg, ret, generated_ids, ssbd, fbbi_label_cache, index, requests>>

NextCon ==
    \/ WorkerGenerateRefId
    \/ WorkerGetFbbiLabel
    \/ WorkerFindIri
    \/ WorkerFindIriReturn

SpecCon == InitCon /\ [][NextCon]_vars

\* the state of a worker that has made no call, with a term cache of its own
Fresh == [generated_ids |-> {}, fbbi_label_cache |-> {}, iri_cache |-> {}]

\* one call of the log made on a worker running alone with state st: its
\* output and the state after. A lookup that needs a request the log has no
\* answer for gives [kind |-> "request"]
AloneCall(c, w, st) ==
    IF c.fn = "_generate_ref_id"
    THEN [output |-> RefIdFor(c.input.key, c.input.force_unique, st.generated_ids),
          st |-> [st EXCEPT !.generated_ids =
                      RefIdsAfter(c.input.key, c.input.force_unique, st.generated_ids)]]
    ELSE IF c.fn = "_get_fbbi_label_from_ontology"
    THEN LET Of(r) == [output |-> r.label, st |-> [st EXCEPT !.fbbi_label_cache = r.cache]]
         IN  Of(ROCrate_get_fbbi_label_from_ontology(st.fbbi_label_cache,
                                                     c.input.fbbi_term, c.response))
    ELSE LET Answered(key, r) ==
                 [output |-> r,
                  st |-> IF r.kind = "raise" THEN st
                         ELSE [st EXCEPT !.iri_cache = IriCachePut(st.iri_cache, key, r)]]
             Of(r) ==
                 IF r.kind # "request" \/ c.response = NoResponse
                 THEN [output |-> r, st |-> st]
                 ELSE Answered(r.key, OntologyTermFinder_get_iri_for_class_in_ontology(
                                          c.response, c.input.required_superclass))
         IN  Of(OntologyTermFinder_find_iri_for_class_in_ontology(
                    st.iri_cache, w, workers[w].avaliable_ontology_ids,
                    c.input.ontology, c.input.search_terms, c.input.required_superclass))

RECURSIVE AloneOutputs(_, _, _)
AloneOutputs(log, w, st) ==
    IF log = <<>> THEN <<>>
    ELSE LET Of(r) == <<r.output>> \o AloneOutputs(Tail(log), w, r.st)
         IN  Of(AloneCall(Head(log), w, st))

\* the calls worker w finished
CallsOf(w) == SelectSeq(calls, LAMBDA c : c.self = w)

\* the keys worker w looked up through its finder
LookedUpBy(w) ==
    {IriCacheKey(w, c.input.ontology, SimplifySearchTerm(c.input.search_terms),
                 c.input.required_superclass) :
        c \in {CallsOf(w)[i] : i \in DOMAIN CallsOf(w)} \cap
              {c \in {calls[i] : i \in DOMAIN calls} :
                  c.fn = "find_iri_for_class_in_ontology"}}

SpecificFirst(entity, specific, generic, default) ==
    IF Truthy(Get(entity, specific)) THEN entity[specific]
    ELSE IF Truthy(Get(entity, generic)) THEN entity[generic]
    ELSE default

\* the nodes of the references under the source-specific key when the node
\* lists some, else of those under the generic key
SpecificRefsFirst(entity, specific, generic, entity_map) ==
    ROCrate_resolve_entities(SpecificFirst(entity, specific, generic, <<>>), entity_map)

\* the author follows the person with the BIA names first
AuthorOf(author, person, entity_map) ==
    LET orgs == SpecificRefsFirst(person, "affiliation", "memberOf", entity_map)
    IN  /\ author.name = SpecificFirst(person, "displayName", "name", Unknown)
        /\ author.email = SpecificFirst(person, "contactEmail", "email", None)
        /\ Len(author.affiliations) = Len(orgs)
        /\ \A k \in DOMAIN orgs :
            author.affiliations[k].display_name =
                SpecificFirst(orgs[k], "displayName", "name", Unknown)

\* C22: at every step with a BIA name and a Schema.org name the BIA name is
\* tried first and the Schema.org one is used only when the BIA one is absent
\* or empty: contributor before author, title before name, licence before
\* license, displayName before name and contactEmail before email of a
\* person, affiliation before memberOf, displayName before name of an
\* organisation, relatedPublication before citation, keyword before keywords.
C22_SpecificNameFirst ==
    /\ op = "ROCrate._extract_authors" =>
        LET persons == SpecificRefsFirst(arg.root, "contributor", "author", arg.entity_map)
        IN  /\ Len(ret.items) = Len(persons)
            /\ \A i \in DOMAIN persons : AuthorOf(ret.items[i], persons[i], arg.entity_map)
    /\ op = "ROCrate._extract_keywords" =>
        LET Given(key) == IF key \in DOMAIN arg THEN arg[key] ELSE PyNone
            Listed(keywords) ==
                IF keywords.t = "str"
                THEN [i \in DOMAIN Split(keywords.s, <<",">>) |->
                         Strip(Split(keywords.s, <<",">>)[i])]
                ELSE SelectSeq(keywords.items, Truthy)
        IN  ret.items = Listed(IF ~Falsy(Given("keyword")) THEN Given("keyword")
                               ELSE Given("keywords"))
    /\ (op = "ROCrate.transform_crate" /\ ret.kind = "study") =>
        LET root == arg[ROCrate_find_root_dataset(arg)]
            pubs == SpecificRefsFirst(root, "relatedPublication", "citation",
                                      ROCrate_build_entity_map(arg))
        IN  /\ ret.title = SpecificFirst(root, "title", "name", ROCrate_extract_id(root))
            /\ ret.license = SpecificFirst(root, "licence", "license", Unknown)
            /\ ret.publications = [i \in DOMAIN pubs |-> ROCratePublication(pubs[i])]

\* the last path segment of url, a trailing slash ignored: what stands
\* between the last "/" before the last character that is not "/" and that
\* character
LastSegment(url) ==
    LET Greatest(S) == IF S = {} THEN 0 ELSE CHOOSE n \in S : \A m \in S : m <= n
        end == Greatest({n \in DOMAIN url : url[n] # "/"})
        start == Greatest({n \in 1..end : url[n] = "/"})
    IN  SubSeq(url, start + 1, end)

\* the first available of accessionId, identifier, the last segment of url,
\* and "unknown"
FirstAvailableId(root) ==
    IF Truthy(Get(root, "accessionId")) THEN root.accessionId
    ELSE IF Truthy(Get(root, "identifier")) THEN root.identifier
    ELSE IF Truthy(Get(root, "url")) /\ LastSegment(root.url) # <<>>
    THEN LastSegment(root.url)
    ELSE <<"u", "n", "k", "n", "o", "w", "n">>

\* C23: _extract_id returns the first available of the root's accessionId,
\* its identifier, the last path segment of its url (a trailing slash
\* ignored) and "unknown", in this order; the id of the record is the
\* lower-cased source, ":" and that value.
C23_IdFirstAvailable ==
    /\ op = "ROCrate._extract_id" => ret.s = FirstAvailableId(arg)
    /\ (op = "ROCrate.transform_crate" /\ ret.kind = "study") =>
        ret.id = Lower(ret.source) \o <<":">>
                     \o ROCrate_extract_id(arg[ROCrate_find_root_dataset(arg)])

\* the identifier a reference names, if any
Names(ref, id) ==
    \/ ref.t = "dict" /\ "id" \in DOMAIN ref /\ ref.id = id
    \/ ref.t = "str" /\ ref.s = id

Dangles(ref, entity_map) == \A id \in DOMAIN entity_map : ~Names(ref, id)

\* the node stored under the identifier ref names, NoEntity when ref dangles
NodeNamedBy(ref, entity_map) ==
    IF Dangles(ref, entity_map) THEN NoEntity
    ELSE entity_map[CHOOSE id \in DOMAIN entity_map : Names(ref, id)]

\* C24: _resolve_entity returns the node stored under the identifier the
\* reference names (the "@id" of a mapping or a bare string) and none for a
\* none reference or an identifier absent from the graph; _resolve_entities
\* returns exactly the nodes of the references that do not dangle, in input
\* order; the node is returned as stored, also when it references itself or
\* lies on a cycle.
C24_ReferencesResolved ==
    /\ op = "ROCrate._resolve_entity" => ret = NodeNamedBy(arg.ref, arg.entity_map)
    /\ op = "ROCrate._resolve_entities" =>
        /\ ret.kind = "list"
        /\ LET refs == IF "refs" \in DOMAIN arg.given THEN arg.given.refs ELSE <<>>
               Kept(ref) == ~Dangles(ref, arg.entity_map)
               kept == SelectSeq(refs, Kept)
           IN  /\ Len(ret.items) = Len(kept)
               /\ \A i \in DOMAIN kept : ret.items[i] = NodeNamedBy(kept[i], arg.entity_map)

\* a list with a dangling reference between a self-referencing node and a
\* node on a cycle was resolved
C24_Witness ==
    /\ op = "ROCrate._resolve_entities"
    /\ "refs" \in DOMAIN arg.given /\ Len(arg.given.refs) = 3
    /\ arg.given.refs[1] = DictRef(NodeA) /\ arg.given.refs[2] = NoneRef
    /\ arg.given.refs[3] = StrRef(NodeB)
    /\ NodeC \in DOMAIN arg.entity_map
    /\ Len(ret.items) = 2
    /\ ret.items[1].about = <<NodeA>> /\ ret.items[2].id = NodeB

\* a row that carries a field name: not empty, no comment
CarriesName(row) ==
    /\ row # <<>>
    /\ ~StartsWith(row[1], <<"#">>) /\ ~StartsWith(row[1], <<"\"", "#">>)
    /\ Strip(row[1]) # <<>>

FieldNames(rows) == {Strip(rows[i][1]) : i \in {j \in DOMAIN rows : CarriesName(rows[j])}}

\* the non-empty values of the rows that carry name, in file order
RECURSIVE ValuesOfName(_, _)
ValuesOfName(rows, name) ==
    IF rows = <<>> THEN <<>>
    ELSE (IF CarriesName(Head(rows)) /\ Strip(Head(rows)[1]) = name
          THEN SelectSeq([i \in 1..(Len(Head(rows)) - 1) |-> Strip(Head(rows)[i + 1])],
                         LAMBDA v : v # <<>>)
          ELSE <<>>)
         \o ValuesOfName(Tail(rows), name)

\* C25: the mapping _parse_study_file returns holds, for every field name,
\* all non-empty values of all rows carrying the name, in file order; the
\* value is a scalar string iff exactly one value was seen in the whole file
\* and a sequence otherwise; a name without a non-empty value is absent.
C25_RepeatedKeysAccumulate ==
    op = "IDR._parse_study_file" =>
        /\ DOMAIN ret.data \subseteq FieldNames(arg.rows)
        /\ \A name \in FieldNames(arg.rows) :
            LET Holds(values) ==
                    /\ name \in DOMAIN ret.data <=> values # <<>>
                    /\ Len(values) = 1 => ret.data[name] = PyStr(values[1])
                    /\ Len(values) > 1 => ret.data[name] = PyList(values)
            IN  Holds(ValuesOfName(arg.rows, name))

\* a name whose values stand in two rows, one of them with an empty cell
\* between two values, was read into a sequence of three
C25_Witness ==
    /\ op = "IDR._parse_study_file"
    /\ Len(arg.rows) = 2 /\ Len(arg.rows[2]) = 4
    /\ Key("Study Title") \in DOMAIN ret.data
    /\ ret.data[Key("Study Title")] = PyList(<<<<"T">>, <<"U">>, <<"V">>>>)

PublicationKeys ==
    {Key("Study PubMed ID"), Key("Study DOI"), Key("Study Publication Title")}

\* the i-th value the file lists for key: the cell of column i of its row,
\* None where the row is missing, ends before i or has an empty cell there
ListedAt(rows, key, i) ==
    LET Of(with) ==
            IF with = {} THEN None
            ELSE LET row == rows[CHOOSE j \in with : TRUE]
                 IN  IF i + 1 <= Len(row) /\ Strip(row[i + 1]) # <<>>
                     THEN Strip(row[i + 1]) ELSE None
    IN  Of({j \in DOMAIN rows : CarriesName(rows[j]) /\ Strip(rows[j][1]) = key})

\* the number of columns of the publication rows
ListedColumns(rows) ==
    LET widths == {Len(rows[j]) - 1 :
                     j \in {k \in DOMAIN rows :
                              CarriesName(rows[k]) /\ Strip(rows[k][1]) \in PublicationKeys}}
    IN  IF widths = {} THEN 0 ELSE CHOOSE w \in widths : \A v \in widths : v <= w

\* each publication key stands in at most one row of the file
OnePublicationRowEach(rows) ==
    \A key \in PublicationKeys :
        Cardinality({j \in DOMAIN rows :
                       CarriesName(rows[j]) /\ Strip(rows[j][1]) = key}) <= 1

\* C26: the publications of an IDR record pair the i-th PubMed ID the file
\* lists with the i-th DOI and the i-th publication title it lists, also
\* when a column is empty at an index; the entry at index i is kept iff one
\* of its three fields is non-empty, and a file without the three fields
\* gives no publication.
C26_PublicationsIndexAligned ==
    (op = "IDR.transform_study" /\ ret.kind = "study"
        /\ OnePublicationRowEach(arg.rows)) =>
        ret.publications =
            SelectSeq([i \in 1..ListedColumns(arg.rows) |->
                         Publication(ListedAt(arg.rows, Key("Study DOI"), i),
                                     ListedAt(arg.rows, Key("Study PubMed ID"), i),
                                     None,
                                     ListedAt(arg.rows, Key("Study Publication Title"), i),
                                     None, NoInt)],
                      PublicationKept)

\* the projects of the graph that list the dataset as has_dataset_output
ListingProjects(graph, dataset_uri) ==
    {p \in Subjects(graph, "rdf:type", SsbdProject) :
        \E o \in Objects(graph, p, "has_dataset_output") : o.v = dataset_uri}

LinkedPapers(graph, project_uri) ==
    {o.v : o \in Objects(graph, project_uri, "has_project_publications")}

\* publications holds one parsed publication for each paper of the project,
\* and nothing else
PublicationsOfProject(graph, project_uri, publications) ==
    /\ Len(publications) = Cardinality(LinkedPapers(graph, project_uri))
    /\ \A u \in LinkedPapers(graph, project_uri) :
        \E i \in DOMAIN publications : publications[i] = SSBD_parse_paper(graph, u)

\* the publications of a dataset that one project lists, or none does
PublicationsThroughProject(graph, dataset_uri, publications) ==
    /\ ListingProjects(graph, dataset_uri) = {} => publications = <<>>
    /\ \A p \in ListingProjects(graph, dataset_uri) :
        ListingProjects(graph, dataset_uri) = {p} =>
            PublicationsOfProject(graph, p, publications)

\* C27: the publications of an SSBD dataset are exactly the parsed
\* publications that the project listing it as has_dataset_output links by
\* has_project_publications, and none for a dataset no project lists; they
\* are read from the index built at construction, which transform_dataset
\* and transform_all leave as it was built.
C27_PublicationsThroughProject ==
    /\ [](/\ (op = "SSBD.transform_dataset" /\ ret.kind = "study") =>
                PublicationsThroughProject(ssbd.graph, arg, ret.publications)
          /\ (op = "SSBD.transform_all" /\ ret.kind = "studies") =>
                \A i \in DOMAIN ret.studies :
                    \E d \in Subjects(ssbd.graph, "rdf:type", SsbdDataset) :
                        /\ ret.studies[i].id = <<"s", "s", "b", "d", ":">> \o SSBD_get_dataset_id(d)
                        /\ PublicationsThroughProject(ssbd.graph, d, ret.studies[i].publications)
          /\ ssbd.pc = "ready" =>
                /\ DOMAIN ssbd._project_publications = Subjects(ssbd.graph, "rdf:type", SsbdProject)
                /\ \A d \in DOMAIN ssbd._dataset_to_project :
                      ssbd._dataset_to_project[d] \in ListingProjects(ssbd.graph, d))
    /\ [][ssbd.pc = "ready" => ssbd' = ssbd]_vars

\* a dataset listed by one of two projects got that project's paper
C27_Witness ==
    /\ op = "SSBD.transform_dataset" /\ ret.kind = "study" /\ arg = Ds2
    /\ ListingProjects(ssbd.graph, Ds2) = {Pr2}
    /\ ListingProjects(ssbd.graph, Ds1) = {Pr1}
    /\ Len(ret.publications) = 1
    /\ ret.publications[1] = SSBD_parse_paper(ssbd.graph, Paper2)
    /\ ret.publications[1] # SSBD_parse_paper(ssbd.graph, Paper1)

\* the project-derived fields of a record, all taken from project_uri
FieldsOfProject(self, dataset_uri, project_uri, study) ==
    /\ PublicationsOfProject(self.graph, project_uri, study.publications)
    /\ study.description =
         Or(SSBD_get_literal(self.graph, project_uri, "has_description"), study.title)
    /\ study.release_date =
         SSBD_release_date(SSBD_get_literal(self.graph, project_uri, "has_submission_date"))

\* C30: when several projects list a dataset as has_dataset_output, its
\* publications, source_url, description and release date all come from one
\* project, the one indexed last for the dataset; the publications and
\* metadata of the other projects are not merged in.
C30_OneProjectPerDataset ==
    /\ (op = "SSBD.transform_dataset" /\ ret.kind = "study"
            /\ ListingProjects(ssbd.graph, arg) # {}) =>
        /\ LET visited == SelectSeq(StoreOrder(Subjects(ssbd.graph, "rdf:type", SsbdProject)),
                                    LAMBDA p : p \in ListingProjects(ssbd.graph, arg))
           IN  ssbd._dataset_to_project[arg] = visited[Len(visited)]
        /\ FieldsOfProject(ssbd, arg, ssbd._dataset_to_project[arg], ret)
        /\ \A p \in ListingProjects(ssbd.graph, arg) \ {ssbd._dataset_to_project[arg]} :
              \A u \in LinkedPapers(ssbd.graph, p) \
                        LinkedPapers(ssbd.graph, ssbd._dataset_to_project[arg]) :
                  \A i \in DOMAIN ret.publications :
                      ret.publications[i] # SSBD_parse_paper(ssbd.graph, u)
    /\ (op = "SSBD._get_project_metadata" /\ ListingProjects(ssbd.graph, arg) # {}) =>
        /\ ret.data.url =
             SSBD_get_literal(ssbd.graph, ssbd._dataset_to_project[arg], "has_project_url")
        /\ ret.source_url =
             SSBD_source_url([url |-> SSBD_get_literal(ssbd.graph, ssbd._dataset_to_project[arg],
                                                       "has_project_url")],
                             SSBD_get_dataset_id(arg))
        /\ ret.data.description =
             SSBD_get_literal(ssbd.graph, ssbd._dataset_to_project[arg], "has_description")

\* a dataset listed by two projects whose papers, descriptions and dates
\* differ was transformed
C30_Witness ==
    /\ op = "SSBD.transform_dataset" /\ ret.kind = "study" /\ arg = Ds1
    /\ ListingProjects(ssbd.graph, Ds1) = {Pr1, Pr2}
    /\ <<Pr2, "has_description", Literal(<<"E">>)>> \in ssbd.graph
    /\ Len(ret.publications) = 1
    /\ \E p \in {Pr1, Pr2} : FieldsOfProject(ssbd, Ds1, p, ret)

\* the references _generate_ref_id returned during call c: its own output,
\* or the @id of the authors without ORCID and of their affiliations
\* without ROR id
GeneratedFor(bia_authors, nodes) ==
    {nodes[i].id : i \in {k \in DOMAIN nodes : ~Truthy(bia_authors[k].orcid)}}
    \cup UNION {{nodes[i].affiliation[j].id :
                    j \in {k \in DOMAIN nodes[i].affiliation :
                             ~Truthy(bia_authors[i].affiliation[k].rorid)}} :
                i \in DOMAIN nodes}

ReturnedIn(c) ==
    IF c.fn = "_generate_ref_id" THEN {c.output} ELSE GeneratedFor(c.input, c.output)

\* the @id of the authors without ORCID, in document order
ForcedIds(bia_authors, nodes) ==
    SelectSeq([i \in DOMAIN nodes |->
                 IF Truthy(bia_authors[i].orcid) THEN None ELSE nodes[i].id],
              LAMBDA id : id # None)

\* what the call logged last returned with force_unique=True, in order
ForcedIn(c) ==
    IF c.fn = "_generate_ref_id"
    THEN (IF c.input[2] THEN <<c.output>> ELSE <<>>)
    ELSE ForcedIds(c.input, c.output)

\* C28: on one instance every _generate_ref_id(key, force_unique=True)
\* returns a reference that no earlier _generate_ref_id call returned, so two
\* authors without ORCID never get the same @id, equal display names
\* included; every reference returned is recorded in generated_ids.
C28_ForcedIdsAreFresh ==
    /\ [](\A i \in DOMAIN calls : ReturnedIn(calls[i]) \subseteq generated_ids)
    /\ [][LET forced == ForcedIn(calls'[Len(calls')])
          IN  /\ generated_ids \subseteq generated_ids'
              /\ \A i \in DOMAIN forced :
                    /\ forced[i] \notin generated_ids
                    /\ forced[i] \in generated_ids'
                    /\ \A j \in DOMAIN forced : j # i => forced[j] # forced[i]]_vars

\* two authors named alike, both without ORCID, stand in a document that is
\* transformed after one that already holds the name; their @id differ
C28_Witness ==
    /\ Len(calls) = 2
    /\ calls[1].fn = "_get_authors" /\ calls[2].fn = "_get_authors"
    /\ Len(calls[2].input) = 2
    /\ calls[2].input[1] = calls[2].input[2]
    /\ calls[1].input[1] = calls[2].input[1]
    /\ ~Truthy(calls[2].input[1].orcid)
    /\ calls[2].output[1].id # calls[2].output[2].id
    /\ calls[2].output[1].id # calls[1].output[1].id
    /\ calls[2].output[2].id \in generated_ids

LookedUp(fbbi_term) ==
    op = "ROCrate._get_fbbi_label_from_ontology" /\ arg.fbbi_term = fbbi_term

\* C29: a transformer instance sends at most one request per FBbi term;
\* once a term was looked up, with a label, without one or with a failure,
\* every later lookup of it returns the same value from the cache and sends
\* no request, so a failed lookup is never tried again.
C29_OneFetchPerTerm ==
    /\ [](\A i, j \in DOMAIN requests : requests[i] = requests[j] => i = j)
    /\ [](\A fbbi_term \in FbbiTerms :
            LookedUp(fbbi_term) =>
                /\ Cached(fbbi_label_cache, fbbi_term)
                /\ CacheGet(fbbi_label_cache, fbbi_term) = ret)
    /\ [][\A fbbi_term \in FbbiTerms :
            Cached(fbbi_label_cache, fbbi_term) =>
                /\ Cached(fbbi_label_cache', fbbi_term)
                /\ CacheGet(fbbi_label_cache', fbbi_term) = CacheGet(fbbi_label_cache, fbbi_term)
                /\ \A i \in (Len(requests) + 1)..Len(requests') :
                      requests'[i].term # fbbi_term]_vars

\* a term whose first lookup failed was looked up again while the service
\* would have answered with a label: no second request, no label
C29_Witness ==
    /\ LookedUp(Fbbi246)
    /\ arg.response.labels = <<Confocal>> /\ arg.response.error = "none"
    /\ ret = None
    /\ requests = <<[self |-> 0, term |-> Fbbi246]>>

=============================================================================
